---- MODULE Spec2Model ----
(***************************************************************************)
(* A model of the BRGEMM JIT kernel generator                              *)
(* src/cpu/x64/brgemm/jit_brgemm_kernel.cpp.                               *)
(*                                                                         *)
(* The generator emits straight-line code and loops; the model executes    *)
(* the emitted code.  Generation-time C++ conditions (if (brg.x) ...) are  *)
(* conditions on the descriptor brg, run-time instructions (mov, add, cmp, *)
(* jg) act on the general purpose registers gpr, the stack frame and the   *)
(* vector registers.  Registers are named by their physical names, so two  *)
(* roles that the source binds to one register share one cell.             *)
(***************************************************************************)
EXTENDS Integers, Sequences, FiniteSets, TLC

\* ------------------------------------------------------------------ bounds
MaxBdb == 3
MaxLdb2 == 2
MaxRdb == 1
MaxBS == 2
MaxVpad == 1

VARIABLES
    brg,    \* the kernel descriptor (brgemm_desc_t), fixed by Init
    rt,     \* the run-time call parameters (brgemm_kernel_params_t and the batch array)
    pc,     \* position in the emitted code
    ph,     \* index of the current bd phase (a call of bdb_loop_body / do_ldb_loop)
    rg,     \* index of the current ldb_loop call inside do_ldb_loop
    gpr,    \* general purpose registers, by physical name
    stack,  \* stack frame slots, by name
    acc,    \* vector registers: zeroed or not, and the contributions accumulated
    memC,   \* the C matrix as written by the kernel
    dup,    \* a contribution was accumulated twice into one register
    code,   \* which emitted variant runs: skip_accumulation, the bd path taken
    trace   \* the instructions executed on the vector registers, in order

vars == <<brg, rt, pc, ph, rg, gpr, stack, acc, memC, dup, code, trace>>

\* ----------------------------------------------------------- small helpers
max(a, b) == IF a > b THEN a ELSE b

min(a, b) == IF a < b THEN a ELSE b

div_up(a, b) == (a + b - 1) \div b

IMPLICATION(a, b) == (~a) \/ b

\* A register value: an integer (seg "int"), a pointer into a memory segment,
\* or a value the code never wrote (seg "undef").
Ptr(s, o) == [seg |-> s, off |-> o]

Imm(n) == Ptr("int", n)

Undef == Ptr("undef", 0)

\* The value of a singleton set.  A name bound in a set constructor is
\* evaluated once, whatever the number of its uses.
Only(S) == CHOOSE x \in S : TRUE

\* add(reg, imm)
AddImm(v, n) == IF v.seg = "undef" THEN v ELSE [v EXCEPT !.off = @ + n]

\* add(reg, reg2): reg2 holds a byte offset
AddReg(v, w) == IF w.seg = "int" THEN AddImm(v, w.off) ELSE Undef

\* ---------------------------------------------------- register decomposition
param1 == "rdi"

reg_C == "r15"

reg_aux_C == "r14"

reg_addr_batch == "r13"

reg_A == "r13"

reg_B == "r12"

reg_aux_A == "r11"

reg_aux_B == "r10"

reg_aux_A_vpad == reg_aux_A

reg_bdb_loop == "r9"

reg_ldb_loop == "r8"

reg_BS_loop == "rax"

reg_rdb_loop == "rbx"

reg_BS == "rcx"

reg_a_offset == "rdx"

reg_b_offset == "rsi"

reg_aux1_batch == "rbp"

reg_aux1_A == "rbp"

reg_aux1_B == "rdi"

reg_offs_batch == reg_aux1_A

reg_strd_batch == reg_rdb_loop

reg_skip_accm == reg_rdb_loop

reg_D == reg_aux_A

reg_aux_D == reg_BS_loop

Regs == {"r15", "r14", "r13", "r12", "r11", "r10", "r9", "r8",
         "rax", "rbx", "rcx", "rdx", "rsi", "rbp", "rdi"}

\* Stack slots used by the loop nest.  origin_offs_batch_offs_ and
\* origin_strd_batch_offs_ are the same slot (offset 0).
Slots == {"origin_batch", "reg_D", "reg_aux_D", "reg_skip_accm"}

\* mov(r, imm), or any move of a value that is not read from a register
Mov(g, r, v) == [g EXCEPT ![r] = v]

\* mov(dst, src)
mov(g, dst, src) == Only({Mov(x, dst, x[src]) : x \in {g}})

\* add(dst, imm), sub(dst, imm)
add(g, dst, n) == Only({Mov(x, dst, AddImm(x[dst], n)) : x \in {g}})

\* add(dst, src)
add_reg(g, dst, src) == Only({Mov(x, dst, AddReg(x[dst], x[src])) : x \in {g}})

\* dec(dst)
dec(g, dst) == add(g, dst, -1)

\* -------------------------------------------------- descriptor derived data
vpad_exist(d) == d.max_top_vpad > 0 \/ d.max_bottom_vpad > 0

need_comp_pads(d) ==
    /\ IMPLICATION(d.zp_type_a = "none", d.req_s8s8_compensation)
    /\ IMPLICATION(~vpad_exist(d), d.req_cal_comp_pads)

is_ldb_loop_(d) ==
    d.ldb2 + (IF d.ldb2_tail # 0 THEN 1 ELSE 0)
           + (IF d.ldb_tail # 0 THEN 1 ELSE 0) > 1

typesize_scale(d) == IF d.dt_b \in {"nf4", "s4", "u4"} THEN 2 ELSE 1

A_offset(d, bd, rd) == d.typesize_A * (bd * d.LDA + rd)

B_offset(d, ld, rd) ==
    LET data_vnni_granularity == d.ld_step
        rdb0 == rd \div data_vnni_granularity
    IN  (d.typesize_B
            * (rdb0 * data_vnni_granularity * d.LDB
               + data_vnni_granularity * ld * d.ld_block)) \div typesize_scale(d)

C_offset(d, bd, ld) == d.typesize_C * (bd * d.LDC + ld * d.ld_block)

rdb_A_offset(d) == d.typesize_A * d.rd_block

rdb_B_offset(d) == (d.typesize_B * d.rd_block * d.LDB) \div typesize_scale(d)

ldb_B_offset(d, ld_block2, is_tail) ==
    IF is_tail
    THEN (d.typesize_B * d.ldb_tail * d.ld_step) \div typesize_scale(d)
    ELSE (d.typesize_B * ld_block2 * d.ld_block * d.ld_step) \div typesize_scale(d)

ldb_C_offset(d, ld_block2, is_tail) ==
    IF is_tail THEN d.typesize_C * d.ldb_tail
    ELSE d.typesize_C * ld_block2 * d.ld_block

\* bdb_A_offset without the row block: A is not advanced between bd blocks.
bdb_A_offset_same_rows(d, bd_block2) == 0 * bd_block2 * d.bd_block

bdb_A_offset(d, bd_block2) == d.typesize_A * bd_block2 * d.bd_block * d.LDA

bdb_C_offset(d, bd_block2) == bd_block2 * d.bd_block * (d.typesize_C * d.LDC)

ldb_D_offset(d, ld_block2, is_tail) ==
    IF is_tail THEN d.typesize_D * d.ldb_tail
    ELSE d.typesize_D * ld_block2 * d.ld_block

bdb_D_offset(d, bd_block2) == bd_block2 * d.bd_block * (d.typesize_D * d.LDD)

\* ------------------------------------------------------- vector registers
max_effective_vregs(d) ==
    d.isa_num_vregs
    - (IF d.is_int8 /\ ~d.has_int8_vnni THEN 2
       ELSE IF d.is_fp8_via_convert THEN 5 ELSE 0)
    - (IF d.dt_b = "nf4" /\ d.isa_impl = "avx2" THEN 5 ELSE 0)
    - (IF d.dt_b = "nf4" /\ d.isa_impl # "avx2" THEN 1 ELSE 0)
    - (IF d.with_wei_decomp_zero_points /\ d.wei_decomp_zero_points_stride = 0
       THEN 1 ELSE 0)
    - (IF d.with_src_dyn_quant THEN 2 ELSE 0)
    - (IF d.with_src_dyn_quant /\ d.with_wei_decomp_zero_points
          /\ d.wei_decomp_zero_points_stride # 0 THEN d.ld_block2 ELSE 0)

accm(d, ld_block, bd, ld) == max_effective_vregs(d) - 1 - (bd * ld_block + ld)

\* A vector register holds the set c of contributions accumulated in it since
\* it was last zeroed; before the kernel zeroes it, it holds the caller's
\* value as well.
Garbage == [zeroed |-> FALSE, c |-> {}]

\* ------------------------------------------------------------ batch array
\* Pointers into the batch array count elements: adding
\* sizeof(brgemm_batch_element_t) is adding 1.
BatchRead(d, r, p, field) ==
    IF p.seg = "batch" /\ p.off >= 0 /\ p.off < r.BS /\ ~r.batch_null
    THEN CASE field = "ptrA" -> Ptr("A", p.off * d.stride_a)
           [] field = "ptrB" -> Ptr("B", p.off * d.stride_b)
           [] field = "offA" -> Imm(p.off * d.stride_a)
           [] field = "offB" -> Imm(p.off * d.stride_b)
           [] field = "top" -> Imm(r.vpad[p.off + 1].top)
           [] field = "bottom" -> Imm(r.vpad[p.off + 1].bottom)
    ELSE Undef

\* ------------------------------------------------------ zero_accumulators
zero_accumulators(a, d, is_bdb_tail, ld_block2) ==
    LET bd_block == IF is_bdb_tail THEN d.bdb_tail ELSE d.bd_block
        cleared == {accm(d, ld_block2, bd, ld) :
                        bd \in 0..(bd_block - 1), ld \in 0..(ld_block2 - 1)}
    IN  [v \in DOMAIN a |-> IF v \in cleared THEN [zeroed |-> TRUE, c |-> {}]
                             ELSE a[v]]

\* ------------------------------------------- restore / set_A_B_matrices
\* mov(dst, ptr[base + GET_OFF_BATCH_ELEMENT(field)])
mov_batch(g, dst, d, r, base, field) ==
    Only({Mov(x, dst, BatchRead(d, r, x[base], field)) : x \in {g}})

\* add(dst, ptr[base + GET_OFF_BATCH_ELEMENT(field)])
add_batch(g, dst, d, r, base, field) ==
    Only({Mov(x, dst, AddReg(x[dst], BatchRead(d, r, x[base], field))) : x \in {g}})

restore_A_B_matrices(g, s, d) ==
    LET restore_reg_batch == d.max_bs > 1 \/ vpad_exist(d)
    IN  IF d.type = "addr"
        THEN IF restore_reg_batch THEN mov(g, reg_aux1_batch, reg_addr_batch)
             ELSE g
        ELSE LET g1 == mov(g, reg_aux1_A, reg_A)
                 g2 == mov(g1, reg_aux1_B, reg_B)
             IN  IF d.type = "offs"
                 THEN Mov(g2, reg_offs_batch, s["origin_batch"])
                 ELSE Mov(g2, reg_strd_batch, s["origin_batch"])

\* Returns the registers and the stack after set_A_B_matrices.
set_A_B_matrices(g, s, d, r) ==
    LET g1 ==
          IF d.type = "addr"
          THEN IF d.max_bs > 1
               THEN LET ga == mov_batch(g, reg_aux_A, d, r, reg_aux1_batch, "ptrA")
                        gb == mov_batch(ga, reg_aux_B, d, r, reg_aux1_batch, "ptrB")
                    IN  add(gb, reg_aux1_batch, 1)
               ELSE LET ga == mov(g, reg_aux_A, reg_aux1_A)
                    IN  mov(ga, reg_aux_B, reg_aux1_B)
          ELSE IF d.type = "offs"
          THEN LET ga == mov(g, reg_aux_A, reg_A)
                   gb == mov(ga, reg_aux_B, reg_B)
                   gc == add_batch(gb, reg_aux_A, d, r, reg_offs_batch, "offA")
                   gd == add_batch(gc, reg_aux_B, d, r, reg_offs_batch, "offB")
               IN  add(gd, reg_offs_batch, 1)
          ELSE LET ga == mov(g, reg_aux_A, reg_aux1_A)
                   gb == mov(ga, reg_aux_B, reg_aux1_B)
                   gc == add(gb, reg_aux1_A, d.stride_a)
                   gd == add(gc, reg_aux1_B, d.stride_b)
               IN  IF vpad_exist(d)
                   THEN Mov(gd, reg_strd_batch, AddImm(s["origin_batch"], 1))
                   ELSE gd
        s1 == IF d.type = "strd" /\ vpad_exist(d)
              THEN [s EXCEPT !["origin_batch"] = AddImm(@, 1)]
              ELSE s
        g2 == add_reg(g1, reg_aux_A, reg_a_offset)
        g3 == add_reg(g2, reg_aux_B, reg_b_offset)
    IN  [gpr |-> g3, stack |-> s1]

\* ------------------------------------------------------- gemm_microkernel
is_valid_bd(d, bd_block, vpad) ==
    LET bd_b == max(0, vpad)
        bd_e == min(bd_block, bd_block + vpad)
    IN  IF need_comp_pads(d) /\ vpad # 0 THEN bd_b <= bd_e ELSE bd_b < bd_e

rd_loop(d, is_rd_tail) ==
    IF is_rd_tail
    THEN IF d.is_bf16 \/ d.is_int8
         THEN LET rd_tail_size == d.rdb_tail % d.rd_step
              IN  IF rd_tail_size # 0
                  THEN ((d.rdb_tail \div d.rd_step) + 1) * d.rd_step
                  ELSE d.rdb_tail
         ELSE d.rdb_tail
    ELSE d.rd_block

\* The dot products of one microkernel call on the registers gA = reg_aux_A
\* and gB = reg_aux_B: the accumulator register and the contribution
\* <<address of the A element, address of the B vector, lanes loaded>> of
\* every (bd, ld, rd) of the emitted loops.
dot_products(d, gA, gB, bd_b, bd_e, ld_block2, rd_loop_, is_ld_tail) ==
    {<<accm(d, ld_block2, bd, ld),
       <<AddImm(gA, A_offset(d, bd, rd)), AddImm(gB, B_offset(d, ld, rd)),
         IF is_ld_tail THEN d.ldb_tail ELSE d.ld_block>>>> :
        bd \in bd_b..(bd_e - 1), ld \in 0..(ld_block2 - 1),
        rd \in {x \in 0..(rd_loop_ - 1) : x % d.rd_step = 0}}

\* The plain vector path.  m = [gpr, stack, acc, dup]; every dot_product adds
\* its contribution to its accumulator register.
gemm_microkernel(m0, d, is_bdb_tail, ld_block2, is_rd_tail, is_ld_tail, vpad) ==
    LET bd_block == IF is_bdb_tail THEN d.bdb_tail ELSE d.bd_block
        bd_b == max(0, vpad)
        bd_e == min(bd_block, bd_block + vpad)
        n == (bd_e - bd_b) * ld_block2
                 * Cardinality({x \in 0..(rd_loop(d, is_rd_tail) - 1) :
                                    x % d.rd_step = 0})
        mk(m, dp) ==
            [m EXCEPT
                !.acc = [v \in DOMAIN m.acc |->
                            [m.acc[v] EXCEPT
                                !.c = @ \cup {p[2] : p \in {q \in dp : q[1] = v}}]],
                !.dup = \/ m.dup
                        \/ Cardinality(dp) # n
                        \/ \E p \in dp : p[2] \in m.acc[p[1]].c]
        dp_of(m) == dot_products(d, m.gpr[reg_aux_A], m.gpr[reg_aux_B],
                                 bd_b, bd_e, ld_block2, rd_loop(d, is_rd_tail),
                                 is_ld_tail)
    IN  IF ~is_valid_bd(d, bd_block, vpad) THEN m0
        ELSE Only({Only({mk(m, dp) : dp \in {dp_of(m)}}) : m \in {m0}})

\* ----------------------------------------------------------- ld_loop_body
RECURSIVE rdb_loop(_, _, _, _, _, _)
\* The run-time reduction loop of ld_loop_body, entered after
\* mov(reg_rdb_loop, brg.rdb).
rdb_loop(m, d, is_bdb_tail, ld_block2, is_ld_tail, vpad) ==
    LET advance(m1) ==
            LET g1 == add(m1.gpr, reg_aux_A, rdb_A_offset(d))
                g2 == add(g1, reg_aux_B, rdb_B_offset(d))
            IN  [m1 EXCEPT !.gpr = dec(g2, reg_rdb_loop)]
        jg(m2) == IF m2.gpr[reg_rdb_loop].off > 0
                  THEN rdb_loop(m2, d, is_bdb_tail, ld_block2, is_ld_tail, vpad)
                  ELSE m2
    IN  Only({jg(m2) : m2 \in {advance(m1) : m1 \in
                 {gemm_microkernel(m, d, is_bdb_tail, ld_block2, FALSE,
                                   is_ld_tail, vpad)}}})

ld_loop_body(m, d, r, is_bdb_tail, ld_block2, is_ld_tail, vpad) ==
    LET bd_block == IF is_bdb_tail THEN d.bdb_tail ELSE d.bd_block
        set(m0, ab) == [m0 EXCEPT !.gpr = ab.gpr, !.stack = ab.stack]
        loops(m1) ==
            IF d.rdb > 0
            THEN rdb_loop([m1 EXCEPT !.gpr = Mov(@, reg_rdb_loop, Imm(d.rdb))],
                          d, is_bdb_tail, ld_block2, is_ld_tail, vpad)
            ELSE m1
        tail(m2) ==
            IF d.rdb_tail # 0
            THEN gemm_microkernel(m2, d, is_bdb_tail, ld_block2, TRUE,
                                  is_ld_tail, vpad)
            ELSE m2
        set_A_B(m0) == Only({set(m0, ab) :
                                ab \in {set_A_B_matrices(m0.gpr, m0.stack, d, r)}})
    IN  Only({IF ~is_valid_bd(d, bd_block, vpad) THEN m1 ELSE tail(loops(m1)) :
                 m1 \in {set_A_B(m0) : m0 \in {m}}})

\* ----------------------------------------------------------- vpad dispatch
RECURSIVE vpad_dispatch(_, _, _, _, _, _)
\* The chain of cmp(reg_aux_A_vpad, vpad) / jne emitted for vpad = from ..
\* max_top_vpad: the vpad ld_loop_body is called with when the register holds
\* v.  An iteration left by `continue` emits no compare, so control falls
\* through to the next label.
vpad_dispatch(d, vpad, v, is_bdb_tail, check_top_vpad, check_bottom_vpad) ==
    IF vpad > d.max_top_vpad THEN 0
    ELSE
    LET next == vpad_dispatch(d, vpad + 1, v, is_bdb_tail,
                              check_top_vpad, check_bottom_vpad)
        adjust == check_bottom_vpad /\ d.bdb_tail # 0 /\ vpad < 0
        skipped == \/ ~check_top_vpad /\ vpad > 0
                   \/ ~check_bottom_vpad /\ vpad < 0
                   \/ adjust /\ ~is_bdb_tail /\ ~(d.bdb_tail < -vpad)
        real_vpad ==
            IF adjust /\ ~is_bdb_tail THEN vpad + d.bdb_tail
            ELSE IF adjust /\ is_bdb_tail /\ d.bdb_tail < -vpad
                    /\ need_comp_pads(d) /\ ~d.req_cal_comp_pads
                 THEN -d.bdb_tail
                 ELSE vpad
    IN  IF skipped THEN next
        ELSE IF v = vpad THEN real_vpad
        ELSE next

\* -------------------------------------------------------------- bdb_loop
rows_for_rd_tail(d) ==
    IF d.rdb_tail # 0 /\ (d.is_bf16 \/ d.is_int8)
    THEN LET rd_tail_size == d.rdb_tail % d.rd_step
         IN  IF rd_tail_size # 0
             THEN div_up(d.rd_step - rd_tail_size, d.reduce_dim)
             ELSE 0
    ELSE 0

bd_blocks_for_rd_tail(d) ==
    div_up(max(0, rows_for_rd_tail(d) - d.bdb_tail + d.max_bottom_vpad),
           d.bd_block)

\* One call of bdb_loop_body (body = TRUE) or of do_ldb_loop alone.  init is
\* the value moved into reg_bdb_loop on entry (-1: none); a looped phase ends
\* with dec(reg_bdb_loop); cmp(reg_bdb_loop, cmpv); jg.
Phase(tail, top, bottom, rows, body, looped, init, cmpv) ==
    [is_bdb_tail |-> tail, check_top_vpad |-> top, check_bottom_vpad |-> bottom,
     rows_for_rd_tail |-> rows, body |-> body, looped |-> looped,
     init |-> init, cmpv |-> cmpv]

\* bdb_loop_avx512, the branch emitted for vpad_exist.
bdb_phases_vpad(d) ==
    LET rows == rows_for_rd_tail(d)
        bbrt == bd_blocks_for_rd_tail(d)
        bdblocks == IF d.bdb >= 1 THEN d.bdb - 1 ELSE d.bdb
        first == IF d.bdb >= 1
                 THEN <<Phase(FALSE, TRUE,
                              (d.bcast_dim - d.max_bottom_vpad) < d.bd_block,
                              IF d.bdb - bbrt > 0 THEN 0 ELSE rows,
                              TRUE, FALSE, -1, 0)>>
                 ELSE <<>>
        middle == IF bdblocks > 1
                  THEN <<Phase(FALSE, FALSE, FALSE,
                               IF bbrt <= 1 THEN 0 ELSE rows,
                               TRUE, TRUE, bdblocks, 1)>>
                  ELSE <<>>
        last == IF bdblocks >= 1
                THEN <<Phase(FALSE, FALSE, TRUE,
                             IF bbrt = 0 THEN 0 ELSE rows,
                             TRUE, FALSE, -1, 0)>>
                ELSE <<>>
        tail == IF d.bdb_tail > 0
                THEN <<Phase(TRUE, d.bdb < 1, TRUE, rows, FALSE, FALSE, -1, 0)>>
                ELSE <<>>
    IN  first \o middle \o last \o tail

\* bdb_loop_avx512, the branch emitted for !vpad_exist or brgemm_strd.
bdb_phases_no_vpad(d) ==
    LET rows == rows_for_rd_tail(d)
        bbrt == bd_blocks_for_rd_tail(d)
        cmpv == IF rows # 0 THEN 1 ELSE 0
        loop == IF d.bdb > 0 /\ d.bdb > cmpv
                THEN <<Phase(FALSE, FALSE, FALSE,
                             IF bbrt <= 1 THEN 0 ELSE rows,
                             TRUE, TRUE, d.bdb, cmpv)>>
                ELSE <<>>
        last == IF d.bdb > 0 /\ rows # 0
                THEN <<Phase(FALSE, FALSE, TRUE,
                             IF bbrt = 0 THEN 0 ELSE rows,
                             TRUE, FALSE, IF d.bdb > cmpv THEN -1 ELSE d.bdb, 0)>>
                ELSE <<>>
        tail == IF d.bdb_tail > 0
                THEN <<Phase(TRUE, FALSE, FALSE, rows, FALSE, FALSE, -1, 0)>>
                ELSE <<>>
    IN  loop \o last \o tail

bdb_phases(d, c) ==
    IF c.path = "vpad" THEN bdb_phases_vpad(d) ELSE bdb_phases_no_vpad(d)

\* do_ldb_loop: the ldb_loop calls it makes, in order.
LdCall(ld_block2, len, is_reg_tail, is_ld_tail) ==
    [ld_block2 |-> ld_block2, ldb_loop_length |-> len,
     is_reg_tail |-> is_reg_tail, is_ld_tail |-> is_ld_tail]

do_ldb_loop(d) ==
    (IF d.ldb2 > 0 THEN <<LdCall(d.ld_block2, d.ldb2, FALSE, FALSE)>> ELSE <<>>)
    \o (IF d.ldb2_tail > 0
        THEN <<LdCall(d.ldb2_tail, 1, d.ldb2 # 0, FALSE)>> ELSE <<>>)
    \o (IF d.ldb_tail > 0
        THEN <<LdCall(1, 1, ~(d.ldb2 = 0 /\ d.ldb2_tail = 0), TRUE)>> ELSE <<>>)

\* mov(reg_bdb_loop, n) on entry to phase i, if that phase starts with one.
enter_phase(g, phases, i) ==
    IF i <= Len(phases) /\ phases[i].init # -1
    THEN Mov(g, reg_bdb_loop, Imm(phases[i].init))
    ELSE g

\* ----------------------------------- store_accumulators_without_post_ops
StoreOne(mem, addr, val, w) ==
    Only({IF a \in DOMAIN x
          THEN [x EXCEPT ![a] = [val |-> val, w |-> w, n |-> @.n + 1]]
          ELSE x @@ (a :> [val |-> val, w |-> w, n |-> 1]) :
             x \in {mem}, a \in {addr}})

RECURSIVE store_cells(_, _, _, _, _, _, _, _)
\* for (bd) for (ld) uni_vmovups(ptr[reg_aux_C + C_offset(bd, ld)], accm(bd, ld)),
\* the tail column block under ld_tail_mask; k numbers the (bd, ld) pairs.
store_cells(mem, a, g, d, ld_block2, is_ld_tail, k, n) ==
    IF k >= n THEN mem
    ELSE LET bd == k \div ld_block2
             ld == k % ld_block2
             is_tail == is_ld_tail /\ ld + 1 = ld_block2
             w == IF is_tail THEN d.ldb_tail ELSE d.ld_block
             addr_c == AddImm(g[reg_aux_C], C_offset(d, bd, ld))
         IN  store_cells(StoreOne(mem, addr_c, a[accm(d, ld_block2, bd, ld)], w),
                         a, g, d, ld_block2, is_ld_tail, k + 1, n)

store_accumulators_without_post_ops(mem, a, g, d, bd_block, ld_block2, is_ld_tail) ==
    store_cells(mem, a, g, d, ld_block2, is_ld_tail, 0, bd_block * ld_block2)

ldb_regs_shift(g, d, ld_block2, is_tail) ==
    LET g1 == add(g, reg_aux_C, ldb_C_offset(d, ld_block2, is_tail))
        g2 == add(g1, reg_aux_D, ldb_D_offset(d, ld_block2, is_tail))
    IN  add(g2, reg_b_offset, ldb_B_offset(d, ld_block2, is_tail))

copy_post_ops_stack_values_to_aux(g, is_reg_tail) ==
    IF ~is_reg_tail
    THEN LET g1 == mov(g, reg_aux_C, reg_C)
             g2 == mov(g1, reg_aux_D, reg_D)
         IN  Mov(g2, reg_b_offset, Imm(0))
    ELSE g

\* ------------------------------------------------------------ descriptors
\* A descriptor of the loop nest: f32 (rd_step 1) or bf16 (rd_step 2, VNNI
\* layout of B), row major, no quantization, vector registers of two lanes
\* and reduction blocks of two elements.  Leading dimensions are the dense
\* ones; batch element b of A and B starts b strides after the first.
LoopDesc(ty, mbs, bdblk, nbdb, bdt, l2, nldb2, l2t, lt, rs, nrdb, rdt, al, tv, bv, gsk) ==
    LET M == nbdb * bdblk + bdt
        N == (nldb2 * l2 + l2t) * 2 + lt
        K == nrdb * 2 + rdt
        NK == div_up(K, rs) * rs
        ts == IF rs = 2 THEN 2 ELSE 4
    IN  [type |-> ty, max_bs |-> mbs,
         bd_block |-> bdblk, bdb |-> nbdb, bdb_tail |-> bdt,
         ld_block |-> 2, ld_block2 |-> l2, ldb2 |-> nldb2,
         ldb2_tail |-> l2t, ldb_tail |-> lt,
         rd_block |-> 2, rd_step |-> rs, ld_step |-> rs,
         rdb |-> nrdb, rdb_tail |-> rdt,
         bcast_dim |-> M, load_dim |-> N, reduce_dim |-> K,
         LDA |-> NK, LDB |-> N, LDC |-> N, LDD |-> N,
         typesize_A |-> ts, typesize_B |-> ts, typesize_C |-> 4, typesize_D |-> 4,
         stride_a |-> ts * M * NK, stride_b |-> ts * NK * N,
         is_bf16 |-> rs = 2, is_int8 |-> FALSE, has_int8_vnni |-> FALSE,
         is_fp8_via_convert |-> FALSE, dt_b |-> IF rs = 2 THEN "bf16" ELSE "f32",
         isa_impl |-> "avx512_core", isa_num_vregs |-> 32,
         alpha |-> al, max_top_vpad |-> tv, max_bottom_vpad |-> bv,
         generate_skip_accumulation |-> gsk,
         zp_type_a |-> "none", req_s8s8_compensation |-> FALSE,
         req_cal_comp_pads |-> FALSE,
         with_wei_decomp_zero_points |-> FALSE,
         wei_decomp_zero_points_stride |-> 0, with_src_dyn_quant |-> FALSE]

Types == {"addr", "offs", "strd"}

\* Block sizes: 1 (no tail possible) and 2 (a tail of one).
BlockSizes == 1..2

WellFormed(s) ==
    /\ s.bdb_tail < s.bd_block /\ s.bdb + s.bdb_tail >= 1
    /\ s.ldb2_tail < s.ld_block2 /\ s.ldb2 + s.ldb2_tail + s.ldb_tail >= 1
    /\ s.rdb + s.rdb_tail >= 1
    /\ s.max_top_vpad <= s.bd_block /\ s.max_bottom_vpad <= s.bd_block
    /\ s.max_top_vpad + s.max_bottom_vpad <= s.bdb * s.bd_block + s.bdb_tail

DescOf(s) ==
    LoopDesc(s.type, s.max_bs, s.bd_block, s.bdb, s.bdb_tail, s.ld_block2,
             s.ldb2, s.ldb2_tail, s.ldb_tail, s.rd_step, s.rdb, s.rdb_tail,
             s.alpha, s.max_top_vpad, s.max_bottom_vpad, s.gsk)

\* Descriptors without virtual padding: no, one or MaxBdb row blocks, no or
\* MaxLdb2 column block groups, no or MaxRdb reduction blocks, each with and
\* without its tail.  The variants that execute no reduction code
\* (alpha = 0, skip_accumulation) are enumerated for brgemm_addr with one
\* reduction shape and blocks of two.
LoopDescs ==
    {DescOf(s) : s \in
        {s \in [type : Types, max_bs : {1, MaxBS},
                bd_block : BlockSizes, bdb : {0, 1, MaxBdb}, bdb_tail : 0..1,
                ld_block2 : BlockSizes, ldb2 : {0, MaxLdb2}, ldb2_tail : 0..1,
                ldb_tail : 0..1,
                rd_step : 1..2, rdb : {0, MaxRdb}, rdb_tail : 0..1,
                alpha : 0..1, max_top_vpad : {0}, max_bottom_vpad : {0},
                gsk : BOOLEAN] :
            /\ WellFormed(s)
            /\ (s.alpha = 0 \/ s.gsk)
                  => /\ s.type = "addr" /\ s.rd_step = 1
                     /\ s.rdb = MaxRdb /\ s.rdb_tail = 0
                     /\ s.bd_block = 2 /\ s.ld_block2 = 2}}

\* Descriptors with virtual padding: f32, row blocks of two rows, one group
\* of two column blocks, MaxRdb reduction blocks with and without a tail.
VpadDescs ==
    {DescOf(s) : s \in
        {s \in [type : Types, max_bs : {1, MaxBS},
                bd_block : {2}, bdb : {0, 1, MaxBdb}, bdb_tail : 0..1,
                ld_block2 : {2}, ldb2 : {1}, ldb2_tail : {0}, ldb_tail : {0},
                rd_step : {1}, rdb : {MaxRdb}, rdb_tail : 0..1,
                alpha : {1}, max_top_vpad : 0..MaxVpad,
                max_bottom_vpad : 0..MaxVpad, gsk : {FALSE}] :
            /\ WellFormed(s)
            /\ s.max_top_vpad + s.max_bottom_vpad > 0}}

\* ------------------------------------------------------------------ Init
\* The call parameters of a descriptor: the batch count, every element's
\* padding, for brgemm_strd with padding whether a batch array is passed,
\* and the caller's value of rbp where the kernel reads it before writing.
Params(d) ==
    {[BS |-> bs, vpad |-> vp, batch_null |-> null,
      batch |-> IF null THEN Imm(0) ELSE Ptr("batch", 0),
      rbp0 |-> rbp0, skip_accm |-> sk, do_apply_comp |-> 0] :
        bs \in {1, d.max_bs},
        vp \in UNION {[1..n -> [top : 0..d.max_top_vpad,
                                bottom : 0..d.max_bottom_vpad]] : n \in 1..d.max_bs},
        null \in (IF d.type = "strd" /\ vpad_exist(d) THEN BOOLEAN ELSE {FALSE}),
        rbp0 \in (IF d.type = "strd" /\ vpad_exist(d) THEN {Imm(0), Undef}
                  ELSE {Undef}),
        sk \in (IF d.generate_skip_accumulation THEN 0..1 ELSE {0})}

InitMachine ==
    /\ rt \in {r \in Params(brg) : Len(r.vpad) = r.BS}
    /\ pc = "start"
    /\ ph = 0
    /\ rg = 0
    /\ gpr = [r \in Regs |-> IF r = "rbp" THEN rt.rbp0
                             ELSE IF r = param1 THEN Ptr("param", 0) ELSE Undef]
    /\ stack = [x \in Slots |-> Undef]
    /\ acc = [v \in 0..(brg.isa_num_vregs - 1) |-> Garbage]
    /\ memC = <<>>
    /\ dup = FALSE
    /\ code = [skip_accumulation |-> FALSE, path |-> "none"]
    /\ trace = <<>>

Init == brg \in LoopDescs /\ InitMachine

InitVpad == brg \in VpadDescs /\ InitMachine

\* --------------------------------------------------------------- actions
IsZero(v) == v.seg = "int" /\ v.off = 0

\* read_params: the call parameters go to their registers and stack slots.
\* reg_rdb_loop is the register of every reg_* role read after the batch
\* pointer, the last of them reg_do_comp.
read_params ==
    /\ pc = "start"
    /\ LET d == brg
           g1 == IF d.type = "addr" THEN Mov(gpr, reg_addr_batch, rt.batch)
                 ELSE LET ga == Mov(Mov(gpr, reg_A, Ptr("A", 0)), reg_B, Ptr("B", 0))
                      IN  IF d.type = "offs"
                          THEN Mov(ga, reg_offs_batch, rt.batch)
                          ELSE Mov(ga, reg_strd_batch, rt.batch)
           s1 == IF d.type = "addr" THEN stack
                 ELSE [stack EXCEPT !["origin_batch"] = rt.batch]
           g2 == Mov(Mov(Mov(g1, reg_C, Ptr("C", 0)), reg_D, Ptr("D", 0)),
                     reg_BS, Imm(rt.BS))
           g3 == Mov(g2, reg_rdb_loop, Imm(rt.do_apply_comp))
       IN  /\ gpr' = g3
           /\ stack' = [s1 EXCEPT !["reg_skip_accm"] = Imm(rt.skip_accm)]
    /\ pc' = "bdb_loop"
    /\ UNCHANGED <<brg, rt, ph, rg, acc, memC, dup, code, trace>>

\* bdb_loop: the skip_accm dispatch, bdb_loop_general's prologue and the
\* entry of bdb_loop_avx512 (for brgemm_strd the run-time test of
\* reg_offs_batch chooses between the vpad and the no-vpad branch).
bdb_loop ==
    /\ pc = "bdb_loop"
    /\ \E g1 \in {IF brg.generate_skip_accumulation
                  THEN Mov(gpr, reg_skip_accm, stack["reg_skip_accm"])
                  ELSE gpr} :
       \E skip \in {brg.generate_skip_accumulation /\ ~IsZero(g1[reg_skip_accm])} :
       \E g3 \in {LET d == brg
                      g2 == IF d.type = "addr" /\ d.max_bs = 1 /\ ~vpad_exist(d)
                               /\ ~skip
                            THEN LET ga == mov_batch(g1, reg_aux1_A, d, rt,
                                                     reg_addr_batch, "ptrA")
                                 IN  mov_batch(ga, reg_aux1_B, d, rt,
                                               reg_addr_batch, "ptrB")
                            ELSE g1
                  IN  Mov(g2, reg_a_offset, Imm(0))} :
       \E c \in {[skip_accumulation |-> skip,
                  path |-> IF vpad_exist(brg)
                              /\ (brg.type = "strd" => ~IsZero(g3[reg_offs_batch]))
                           THEN "vpad" ELSE "novpad"]} :
          /\ code' = c
          /\ gpr' = enter_phase(g3, bdb_phases(brg, c), 1)
    /\ pc' = "ldb_loop"
    /\ ph' = 1
    /\ rg' = 1
    /\ UNCHANGED <<brg, rt, stack, acc, memC, dup, trace>>

\* ldb_loop up to ldb_loop_label.
ldb_loop ==
    /\ pc = "ldb_loop"
    /\ \E c \in {do_ldb_loop(brg)[rg]} :
       LET g1 == copy_post_ops_stack_values_to_aux(gpr, c.is_reg_tail)
       IN  gpr' = IF is_ldb_loop_(brg)
                  THEN Mov(g1, reg_ldb_loop, Imm(c.ldb_loop_length)) ELSE g1
    /\ pc' = "ldb_iter"
    /\ UNCHANGED <<brg, rt, ph, rg, stack, acc, memC, dup, code, trace>>

\* From ldb_loop_label to BS_loop_label: zero_accumulators, the saves of
\* reg_D and reg_aux_D, restore_A_B_matrices.
ldb_iter ==
    /\ pc = "ldb_iter"
    /\ \E d \in {brg}, p \in {bdb_phases(brg, code)[ph]},
          c \in {do_ldb_loop(brg)[rg]},
          accumulate \in {brg.alpha # 0 /\ ~code.skip_accumulation} :
       \E g1 \in {IF is_ldb_loop_(d) THEN gpr ELSE mov(gpr, reg_ldb_loop, reg_D)} :
       \E s2 \in {LET s1 == IF is_ldb_loop_(d)
                            THEN [stack EXCEPT !["reg_D"] = gpr[reg_D]]
                            ELSE stack
                  IN  IF d.max_bs > 1
                      THEN [s1 EXCEPT !["reg_aux_D"] = g1[reg_aux_D]]
                      ELSE s1} :
       LET g2 == IF accumulate THEN restore_A_B_matrices(g1, s2, d) ELSE g1
           g3 == IF accumulate /\ d.max_bs > 1
                 THEN mov(g2, reg_BS_loop, reg_BS) ELSE g2
       IN  /\ acc' = zero_accumulators(acc, d, p.is_bdb_tail, c.ld_block2)
           /\ gpr' = g3
           /\ stack' = s2
           /\ pc' = IF accumulate THEN "BS" ELSE "store"
    /\ UNCHANGED <<brg, rt, ph, rg, memC, dup, code, trace>>

\* One iteration of the batch loop: the vpad dispatch, ld_loop_body, and
\* dec(reg_BS_loop); cmp; jg.  A vpad read through a pointer that is not
\* in the batch array is any value.
BS_loop ==
    /\ pc = "BS"
    /\ \E d \in {brg}, p \in {bdb_phases(brg, code)[ph]},
          c \in {do_ldb_loop(brg)[rg]} :
       \E dispatch \in {p.check_top_vpad \/ p.check_bottom_vpad} :
       \E g1 \in {IF dispatch /\ vpad_exist(d) /\ d.type = "strd"
                  THEN Mov(gpr, reg_strd_batch, stack["origin_batch"]) ELSE gpr} :
       \E reg_batch \in {IF d.type = "addr" THEN reg_aux1_batch
                         ELSE IF d.type = "offs" THEN reg_offs_batch
                         ELSE reg_strd_batch} :
       \E top \in {BatchRead(d, rt, g1[reg_batch], "top")},
          bottom \in {BatchRead(d, rt, g1[reg_batch], "bottom")} :
       \E v \in (IF ~(dispatch /\ vpad_exist(d)) THEN {0}
                 ELSE IF top.seg = "int" /\ bottom.seg = "int"
                 THEN {top.off - bottom.off}
                 ELSE (-d.max_bottom_vpad - 1)..d.max_top_vpad) :
       \E real_vpad \in {IF dispatch
                         THEN vpad_dispatch(d, -d.max_bottom_vpad, v,
                                  p.is_bdb_tail, p.check_top_vpad,
                                  p.check_bottom_vpad)
                         ELSE 0} :
       \E m \in {ld_loop_body([gpr |-> IF dispatch
                                       THEN Mov(g1, reg_aux_A_vpad, Imm(v))
                                       ELSE g1,
                               stack |-> stack, acc |-> acc, dup |-> dup],
                              d, rt, p.is_bdb_tail, c.ld_block2, c.is_ld_tail,
                              real_vpad)} :
       \E g3 \in {IF d.max_bs > 1 THEN dec(m.gpr, reg_BS_loop) ELSE m.gpr} :
           /\ gpr' = g3
           /\ stack' = m.stack
           /\ acc' = m.acc
           /\ dup' = m.dup
           /\ pc' = IF d.max_bs > 1 /\ g3[reg_BS_loop].off > 0
                    THEN "BS" ELSE "store"
    /\ UNCHANGED <<brg, rt, ph, rg, memC, code, trace>>

\* From the end of the batch loop to jg(ldb_loop_label): the restores of
\* reg_D and reg_aux_D, store_accumulators, ldb_regs_shift, the loop test.
store_accumulators ==
    /\ pc = "store"
    /\ \E d \in {brg}, p \in {bdb_phases(brg, code)[ph]},
          c \in {do_ldb_loop(brg)[rg]}, n \in {Len(do_ldb_loop(brg))} :
       \E g2 \in {LET g1 == IF is_ldb_loop_(d)
                            THEN Mov(gpr, reg_D, stack["reg_D"])
                            ELSE mov(gpr, reg_D, reg_ldb_loop)
                  IN  IF d.max_bs > 1
                      THEN Mov(g1, reg_aux_D, stack["reg_aux_D"]) ELSE g1} :
       \E g3 \in {IF is_ldb_loop_(d)
                  THEN dec(IF ~c.is_ld_tail
                           THEN ldb_regs_shift(g2, d, c.ld_block2, FALSE)
                           ELSE ldb_regs_shift(g2, d, 1, TRUE),
                           reg_ldb_loop)
                  ELSE g2} :
       \E again \in {is_ldb_loop_(d) /\ g3[reg_ldb_loop].seg = "int"
                     /\ g3[reg_ldb_loop].off > 0} :
           /\ memC' = store_accumulators_without_post_ops(memC, acc, g2, d,
                          IF p.is_bdb_tail THEN d.bdb_tail ELSE d.bd_block,
                          c.ld_block2, c.is_ld_tail)
           /\ gpr' = g3
           /\ pc' = IF again THEN "ldb_iter"
                    ELSE IF rg < n THEN "ldb_loop"
                    ELSE "bdb_end"
           /\ rg' = IF ~again /\ rg < n THEN rg + 1 ELSE rg
    /\ UNCHANGED <<brg, rt, ph, stack, acc, dup, code, trace>>

\* The rest of bdb_loop_body after do_ldb_loop and the bd loop test.
bdb_loop_body ==
    /\ pc = "bdb_end"
    /\ \E d \in {brg}, phases \in {bdb_phases(brg, code)} :
       \E p \in {phases[ph]} :
       \E g2 \in {LET g1 == IF p.body
                            THEN LET ga == add(gpr, reg_C, bdb_C_offset(d, 1))
                                     gb == add(ga, reg_D, bdb_D_offset(d, 1))
                                 IN  add(gb, reg_a_offset, bdb_A_offset(d, 1))
                            ELSE gpr
                  IN  IF p.looped THEN dec(g1, reg_bdb_loop) ELSE g1} :
           IF p.looped /\ g2[reg_bdb_loop].off > p.cmpv
           THEN /\ gpr' = g2
                /\ ph' = ph
                /\ pc' = "ldb_loop"
           ELSE /\ gpr' = enter_phase(g2, phases, ph + 1)
                /\ ph' = ph + 1
                /\ pc' = IF ph < Len(phases) THEN "ldb_loop" ELSE "done"
    /\ rg' = 1
    /\ UNCHANGED <<brg, rt, stack, acc, memC, dup, code, trace>>

Next ==
    \/ read_params
    \/ bdb_loop
    \/ ldb_loop
    \/ ldb_iter
    \/ BS_loop
    \/ store_accumulators
    \/ bdb_loop_body

Spec == Init /\ [][Next]_vars

SpecVpad == InitVpad /\ [][Next]_vars

\* ------------------------------------------------ reference accumulation
\* The element layout of the operands, row major: batch element b of A and
\* of B starts b strides after the first; B is stored in groups of ld_step
\* reduction rows (VNNI).  A cell is a row i and a column block jb.
ElemA(d, b, i, k) == Ptr("A", b * d.stride_a + d.typesize_A * (i * d.LDA + k))

ElemB(d, b, k, jb) ==
    Ptr("B", b * d.stride_b
             + d.typesize_B * ((k \div d.ld_step) * d.ld_step * d.LDB
                               + d.ld_step * jb * d.ld_block))

ElemC(d, i, jb) == Ptr("C", d.typesize_C * (i * d.LDC + jb * d.ld_block))

Rows(d) == 0..(d.bcast_dim - 1)

ColBlocks(d) == 0..(div_up(d.load_dim, d.ld_block) - 1)

Width(d, jb) == min(d.ld_block, d.load_dim - jb * d.ld_block)

\* The reduction steps: one multiply-accumulate consumes rd_step elements.
KSteps(d) == {k \in 0..(d.reduce_dim - 1) : k % d.rd_step = 0}

\* The multiply-accumulates of cell (i, jb) over the batch, rows
\* [top, M - bottom) of each batch element being the ones not padded.
Contributions(d, r, i, jb) ==
    {<<ElemA(d, b, i, k), ElemB(d, b, k, jb), Width(d, jb)>> :
        b \in {x \in 0..(r.BS - 1) :
                  /\ i >= r.vpad[x + 1].top
                  /\ i < d.bcast_dim - r.vpad[x + 1].bottom},
        k \in KSteps(d)}

\* Every cell was zeroed, received exactly the contributions cs(i, jb), and
\* was stored exactly once, with the width of its column block.
StoredExactly(d, cs(_, _)) ==
    /\ ~dup
    /\ DOMAIN memC = {ElemC(d, i, jb) : i \in Rows(d), jb \in ColBlocks(d)}
    /\ \A i \in Rows(d), jb \in ColBlocks(d) :
          memC[ElemC(d, i, jb)] =
              [val |-> [zeroed |-> TRUE, c |-> cs(i, jb)],
               w |-> Width(d, jb), n |-> 1]

Accumulates == brg.alpha # 0 /\ ~(brg.generate_skip_accumulation /\ rt.skip_accm # 0)

C2_PaddedRowsSkipped ==
    (pc = "done" /\ vpad_exist(brg) /\ ~need_comp_pads(brg)) =>
        LET cs(i, jb) == Contributions(brg, rt, i, jb)
        IN  StoredExactly(brg, cs)

\* ====================================================================
\* The store pipeline: what store_accumulators executes on each
\* accumulator.  The loop nest above stores contribution sets and leaves the
\* arithmetic of the pipeline out; here the accumulator values are left out
\* and the instructions executed on each accumulator are recorded in trace,
\* one record [op, cell] per instruction, cell = <<row, column block>>.
\* ====================================================================

\* for (bd) for (ld): the cells of a block, rows outermost.
ForBdLd(bd_block, ld_block2) ==
    [i \in 1..(bd_block * ld_block2) |->
        <<(i - 1) \div ld_block2, (i - 1) % ld_block2>>]

\* for (ld) for (bd): the cells of a block, column blocks outermost.
ForLdBd(bd_block, ld_block2) ==
    [i \in 1..(bd_block * ld_block2) |->
        <<(i - 1) % bd_block, (i - 1) \div bd_block>>]

\* A loop over cells whose body executes the instructions ops on the cell.
Body(cells, ops) ==
    [i \in 1..(Len(cells) * Len(ops)) |->
        [op |-> ops[((i - 1) % Len(ops)) + 1],
         cell |-> cells[((i - 1) \div Len(ops)) + 1]]]

If(c, ops) == IF c THEN ops ELSE <<>>

has_zero_points(d) ==
    ~(d.zp_type_a = "none" /\ d.zp_type_b = "none" /\ d.zp_type_c = "none")

are_post_ops_applicable(d) ==
    \/ d.with_eltwise \/ d.with_binary \/ d.with_scales \/ d.with_bias
    \/ d.with_sum \/ d.dt_d # d.dt_c \/ d.req_s8s8_compensation
    \/ has_zero_points(d) \/ d.with_dst_scales

need_to_apply_alpha_beta(d) == d.beta # 0 \/ d.alpha # 1

need_generate_zp_a_compensation(d) ==
    d.is_int8 /\ (d.req_s8s8_compensation \/ has_zero_points(d))

\* The post-ops injector exists iff an eltwise, binary or sum post-op is
\* configured.
postops_injector_(d) == d.with_eltwise \/ d.with_binary \/ d.with_sum

apply_alpha_beta(d, bd_block, ld_block2) ==
    LET apply_alpha == d.alpha # 1
        dq2ps_required == d.is_int8 /\ (apply_alpha \/ d.beta # 1)
                          /\ ~d.with_src_dyn_quant
    IN  Body(ForBdLd(bd_block, ld_block2),
             If(dq2ps_required, <<"cvtdq2ps">>) \o If(apply_alpha, <<"alpha">>))
        \o If(d.beta # 0, Body(ForBdLd(bd_block, ld_block2), <<"beta">>))

apply_compensation(d, bd_block, ld_block2) ==
    If(~d.req_cal_comp_pads /\ d.zp_type_a # "none",
       Body(ForLdBd(bd_block, ld_block2), <<"zp_a_comp">>))
    \o If(d.zp_type_b # "none",
          Body(ForBdLd(bd_block, ld_block2), <<"zp_b_comp">>))
    \o If(~d.req_cal_comp_pads /\ d.req_s8s8_compensation,
          Body(ForLdBd(bd_block, ld_block2), <<"s8s8_comp">>))

store_accumulators_bias_before_scale(d, bd_block, ld_block2) ==
    Body(ForLdBd(bd_block, ld_block2), If(d.with_bias, <<"bias">>))
    \o If(d.with_scales, Body(ForLdBd(bd_block, ld_block2), <<"scale">>))
    \o Body(ForBdLd(bd_block, ld_block2), <<"store_D">>)

\* The store with post-ops, saturating only to the 8-bit destinations.
store_accumulators_saturate_narrow(d, bd_block, ld_block2) ==
    LET alpha_or_beta_applicable == d.alpha # 1 \/ d.beta # 0
        beta_uses_vadd == d.beta = 1 /\ IMPLICATION(d.is_int8, d.alpha = 1)
        dq2ps_required == d.is_int8
                          /\ IMPLICATION(alpha_or_beta_applicable, beta_uses_vadd)
                          /\ ~d.with_src_dyn_quant
        dt_requires_saturation == d.dt_d \in {"u8", "s8"}
    IN  If(d.with_scales,
           Body(ForLdBd(bd_block, ld_block2),
                If(dq2ps_required, <<"cvtdq2ps">>) \o <<"scale">>))
        \o Body(ForLdBd(bd_block, ld_block2),
                If(dq2ps_required /\ ~d.with_scales, <<"cvtdq2ps">>)
                \o If(d.with_bias, <<"bias">>))
        \o If(postops_injector_(d),
              Body(ForBdLd(bd_block, ld_block2), <<"post_ops">>))
        \o If(d.with_dst_scales,
              Body(ForLdBd(bd_block, ld_block2), <<"dst_scale">>))
        \o If(d.zp_type_c # "none",
              Body(ForLdBd(bd_block, ld_block2), <<"zp_c">>))
        \o If(dt_requires_saturation,
              Body(ForBdLd(bd_block, ld_block2), <<"saturate">>))
        \o Body(ForBdLd(bd_block, ld_block2), <<"store_D">>)

store_accumulators_apply_post_ops(d, bd_block, ld_block2) ==
    LET alpha_or_beta_applicable == d.alpha # 1 \/ d.beta # 0
        beta_uses_vadd == d.beta = 1 /\ IMPLICATION(d.is_int8, d.alpha = 1)
        dq2ps_required == d.is_int8
                          /\ IMPLICATION(alpha_or_beta_applicable, beta_uses_vadd)
                          /\ ~d.with_src_dyn_quant
        dt_requires_saturation == d.dt_d \in {"u8", "s8", "s32"}
    IN  If(d.with_scales,
           Body(ForLdBd(bd_block, ld_block2),
                If(dq2ps_required, <<"cvtdq2ps">>) \o <<"scale">>))
        \o Body(ForLdBd(bd_block, ld_block2),
                If(dq2ps_required /\ ~d.with_scales, <<"cvtdq2ps">>)
                \o If(d.with_bias, <<"bias">>))
        \o If(postops_injector_(d),
              Body(ForBdLd(bd_block, ld_block2), <<"post_ops">>))
        \o If(d.with_dst_scales,
              Body(ForLdBd(bd_block, ld_block2), <<"dst_scale">>))
        \o If(d.zp_type_c # "none",
              Body(ForLdBd(bd_block, ld_block2), <<"zp_c">>))
        \o If(dt_requires_saturation,
              Body(ForBdLd(bd_block, ld_block2), <<"saturate">>))
        \o Body(ForBdLd(bd_block, ld_block2), <<"store_D">>)

\* store_accumulators_without_post_ops, as instructions: the saturation to
\* brg.dt_d of accumulators that apply_alpha_beta converted, the store to C.
without_post_ops_instructions(d, bd_block, ld_block2) ==
    LET alpha_or_beta_applicable == d.alpha # 1 \/ d.beta # 0
        beta_uses_vadd == d.beta = 1 /\ IMPLICATION(d.is_int8, d.alpha = 1)
        dt_requires_saturation ==
            d.is_int8 /\ ~IMPLICATION(alpha_or_beta_applicable, beta_uses_vadd)
    IN  If(dt_requires_saturation,
           Body(ForBdLd(bd_block, ld_block2), <<"saturate">>))
        \o Body(ForBdLd(bd_block, ld_block2), <<"store_C">>)

\* The concatenation of a sequence of sequences.
RECURSIVE Concat(_)
Concat(ss) == IF ss = <<>> THEN <<>> ELSE Head(ss) \o Concat(Tail(ss))

\* for (bd = b; bd < e; bd++) in column block ld.
RowsOf(b, e, ld) == [i \in 1..max(e - b, 0) |-> <<b + i - 1, ld>>]

\* compute_int8_compensation: inside the microkernel, for every reduction
\* step and column block, the compensation of the rows bd_b..bd_e-1
\* (req_cal_comp_pads) or of the padded rows (vpad != 0) goes into accm.
compute_int8_compensation(d, rd_loop_, bd_b, bd_e, bd_block, ld_block2, vpad) ==
    LET compensation_padding(ld, b, e) ==
            If(d.req_s8s8_compensation, Body(RowsOf(b, e, ld), <<"mk_s8s8_comp">>))
            \o If(d.zp_type_a # "none", Body(RowsOf(b, e, ld), <<"mk_zp_a_comp">>))
        column(ld) ==
            IF d.req_cal_comp_pads THEN compensation_padding(ld, bd_b, bd_e)
            ELSE IF vpad # 0
            THEN If(bd_b > 0, compensation_padding(ld, 0, bd_b))
                 \o If(bd_e < bd_block, compensation_padding(ld, bd_e, bd_block))
            ELSE <<>>
    IN  Concat([i \in 1..(div_up(rd_loop_, d.rd_step) * ld_block2) |->
                    column((i - 1) % ld_block2)])

\* The cells of tile (bdb, ldb): the callee works on accm(1, bd, 0).
Relocate(ins, bdb, ldb, adj_bd_block) ==
    [i \in 1..Len(ins) |->
        [ins[i] EXCEPT !.cell = <<bdb * adj_bd_block + @[1], ldb>>]]

\* The lambda store_accumulators_amx of store_accumulators, for one
\* bd_block2 x ld_block2 group of tiles.
store_accumulators_amx(d, bd_block2, is_bdb_tail, ld_block2, apply_post_ops, apply_zp_a_compensation) ==
    LET adj_bd_block == IF d.is_M_tail /\ is_bdb_tail THEN d.bdb_tail
                        ELSE d.bd_block
        tile(bdb, ldb) ==
            IF need_to_apply_alpha_beta(d) \/ are_post_ops_applicable(d)
               \/ apply_zp_a_compensation
            THEN Relocate(
                    Body(ForBdLd(adj_bd_block, 1), <<"tile_to_vmm">>)
                    \o If(apply_zp_a_compensation,
                          apply_compensation(d, adj_bd_block, 1))
                    \o If(need_to_apply_alpha_beta(d),
                          apply_alpha_beta(d, adj_bd_block, 1))
                    \o (IF apply_post_ops
                        THEN store_accumulators_apply_post_ops(d, adj_bd_block, 1)
                        ELSE without_post_ops_instructions(d, adj_bd_block, 1)),
                    bdb, ldb, adj_bd_block)
            ELSE Relocate(Body(ForBdLd(adj_bd_block, 1), <<"tilestored_C">>),
                          bdb, ldb, adj_bd_block)
    IN  Concat([i \in 1..(bd_block2 * ld_block2) |->
                    tile((i - 1) \div ld_block2, (i - 1) % ld_block2)])

\* ------------------------------------------------ store pipeline: descriptors
Merge(r1, r2) ==
    [k \in DOMAIN r1 \cup DOMAIN r2 |-> IF k \in DOMAIN r2 THEN r2[k] ELSE r1[k]]

\* The compensation configurations of an int8 descriptor: zero-point type of
\* A and B, s8s8 compensation, compensation computed with the padding
\* (req_cal_comp_pads), and virtual padding.
CompConfig(zpa, zpb, s8s8, pads, tv) ==
    [zp_type_a |-> zpa, zp_type_b |-> zpb, req_s8s8_compensation |-> s8s8,
     req_cal_comp_pads |-> pads, max_top_vpad |-> tv]

CompConfigs ==
    {CompConfig("none", "none", FALSE, FALSE, 0),
     CompConfig("per_tensor", "none", FALSE, FALSE, 0),
     CompConfig("none", "per_tensor", FALSE, FALSE, 0),
     CompConfig("none", "none", TRUE, FALSE, 0),
     CompConfig("none", "none", TRUE, TRUE, 0),
     CompConfig("per_tensor", "none", FALSE, TRUE, 0),
     CompConfig("per_tensor", "per_tensor", TRUE, FALSE, 1)}

\* Data types and quantization: f32 kernels, int8 kernels with every
\* compensation configuration, int8 kernels with dynamically quantized
\* source.
QuantConfigs ==
    {Merge(CompConfig("none", "none", FALSE, FALSE, 0),
           [is_int8 |-> FALSE, with_src_dyn_quant |-> FALSE,
            dt_c |-> "f32", dt_d |-> dd]) : dd \in {"f32", "bf16"}}
    \cup {Merge(c, [is_int8 |-> TRUE, with_src_dyn_quant |-> FALSE,
                    dt_c |-> "s32", dt_d |-> dd]) :
            c \in CompConfigs, dd \in {"s32", "u8", "f32"}}
    \cup {Merge(CompConfig("none", "none", FALSE, FALSE, 0),
                [is_int8 |-> TRUE, with_src_dyn_quant |-> TRUE,
                 dt_c |-> "f32", dt_d |-> dd]) : dd \in {"f32", "u8"}}

\* The post-processing configured after bias: none, destination scale with a
\* per-tensor output zero-point, a per-column output zero-point alone.
DstConfigs ==
    {[with_dst_scales |-> FALSE, zp_type_c |-> "none"],
     [with_dst_scales |-> TRUE, zp_type_c |-> "per_tensor"],
     [with_dst_scales |-> FALSE, zp_type_c |-> "per_n"]}

\* A block of two rows and two column blocks, one reduction step; in tile
\* mode two tiles of two rows.
StoreDesc(tmm, al, be, sc, bi, po, q, dc) ==
    Merge(Merge(q, dc),
          [is_tmm |-> tmm, alpha |-> al, beta |-> be,
           with_scales |-> sc, with_bias |-> bi,
           with_eltwise |-> po, with_binary |-> FALSE, with_sum |-> po,
           bd_block |-> 2, bdb_tail |-> 0, is_M_tail |-> FALSE,
           ld_block2 |-> 2, ld_block |-> 2, ldb_tail |-> 0,
           rd_block |-> 1, rd_step |-> 1, rdb_tail |-> 0, is_bf16 |-> FALSE,
           max_bottom_vpad |-> 0])

StoreDescs ==
    {StoreDesc(tmm, al, be, sc, bi, po, q, dc) :
        tmm \in BOOLEAN, al \in 1..2, be \in 0..2, sc \in BOOLEAN,
        bi \in BOOLEAN, po \in BOOLEAN, q \in QuantConfigs, dc \in DstConfigs}

\* The call: the two run-time flags, and the microkernel specialization the
\* batch element's padding selects.
StoreParams(d) ==
    [do_post_ops : 0..1, do_apply_comp : 0..1, mk_vpad : {0, d.max_top_vpad}]

InitStore ==
    /\ brg \in StoreDescs
    /\ rt \in StoreParams(brg)
    /\ pc = "microkernel"
    /\ ph = 0
    /\ rg = 0
    /\ gpr = [r \in Regs |-> Undef]
    /\ stack = [x \in Slots |-> Undef]
    /\ acc = <<>>
    /\ memC = <<>>
    /\ dup = FALSE
    /\ code = [skip_accumulation |-> FALSE, path |-> "none"]
    /\ trace = <<>>

\* ---------------------------------------------------- store pipeline: actions
\* gemm_microkernel up to the reduction loop: the vector microkernel computes
\* the compensation of the padding with the dot products; the tile
\* microkernel and the dynamic quantization microkernel do not.
microkernel_compensation ==
    /\ pc = "microkernel"
    /\ \E d \in {brg}, vpad \in {rt.mk_vpad} :
       \E bd_b \in {max(0, vpad)}, bd_e \in {min(d.bd_block, d.bd_block + vpad)},
          comp_vpad \in {vpad # 0 /\ (d.req_s8s8_compensation
                                      \/ d.zp_type_a # "none")} :
          trace' = trace \o
              If(~d.is_tmm /\ ~d.with_src_dyn_quant
                 /\ is_valid_bd(d, d.bd_block, vpad)
                 /\ (d.req_cal_comp_pads \/ comp_vpad),
                 compute_int8_compensation(d, rd_loop(d, FALSE), bd_b, bd_e,
                                           d.bd_block, d.ld_block2, vpad))
    /\ pc' = "store_accumulators"
    /\ UNCHANGED <<brg, rt, ph, rg, gpr, stack, acc, memC, dup, code>>

\* store_accumulators, vector path: compensation under do_comp, alpha and
\* beta, then the store with or without post-ops under do_post_ops.
store_accumulators_vmm ==
    /\ pc = "store_accumulators"
    /\ ~brg.is_tmm
    /\ \E d \in {brg} :
          trace' = trace
              \o If(need_generate_zp_a_compensation(d) /\ rt.do_apply_comp # 0,
                    apply_compensation(d, d.bd_block, d.ld_block2))
              \o If(need_to_apply_alpha_beta(d),
                    apply_alpha_beta(d, d.bd_block, d.ld_block2))
              \o (IF are_post_ops_applicable(d) /\ rt.do_post_ops # 0
                  THEN store_accumulators_apply_post_ops(d, d.bd_block, d.ld_block2)
                  ELSE without_post_ops_instructions(d, d.bd_block, d.ld_block2))
    /\ pc' = "stored"
    /\ UNCHANGED <<brg, rt, ph, rg, gpr, stack, acc, memC, dup, code>>

\* store_accumulators, tile path: the run-time dispatch on do_post_ops and
\* do_comp to one of the four emitted copies of store_accumulators_amx.
store_accumulators_tmm ==
    /\ pc = "store_accumulators"
    /\ brg.is_tmm
    /\ \E d \in {brg} :
          trace' = trace \o
              (IF are_post_ops_applicable(d) /\ rt.do_post_ops # 0
               THEN store_accumulators_amx(d, 1, FALSE, d.ld_block2, TRUE,
                        need_generate_zp_a_compensation(d) /\ rt.do_apply_comp # 0)
               ELSE store_accumulators_amx(d, 1, FALSE, d.ld_block2, FALSE,
                        need_generate_zp_a_compensation(d) /\ rt.do_apply_comp # 0))
    /\ pc' = "stored"
    /\ UNCHANGED <<brg, rt, ph, rg, gpr, stack, acc, memC, dup, code>>

NextStore ==
    \/ microkernel_compensation
    \/ store_accumulators_vmm
    \/ store_accumulators_tmm

SpecStore == InitStore /\ [][NextStore]_vars

\* ----------------------------------------------------- store pipeline: claims
CellsOf(t) == {t[i].cell : i \in DOMAIN t}

\* The instructions executed on one cell, in order.
OpsOf(t, c) == SelectSeq(t, LAMBDA e : e.cell = c)

Executed(ops) == \E i \in DOMAIN trace : trace[i].op \in ops

CompensationInStore == {"zp_a_comp", "zp_b_comp", "s8s8_comp"}

CompensationInMicrokernel == {"mk_s8s8_comp", "mk_zp_a_comp"}

\* The place of an instruction in the sequence of the store pipeline:
\* compensation, alpha/beta, widening, scale, bias, post-ops, destination
\* scale, output zero-point, saturation, conversion and store.
StepOf(op) ==
    CASE op = "tile_to_vmm" -> 0
      [] op \in CompensationInStore \cup CompensationInMicrokernel -> 1
      [] op \in {"alpha", "beta"} -> 2
      [] op = "cvtdq2ps" -> 3
      [] op = "scale" -> 4
      [] op = "bias" -> 5
      [] op = "post_ops" -> 6
      [] op = "dst_scale" -> 7
      [] op = "zp_c" -> 8
      [] op = "saturate" -> 9
      [] op \in {"store_D", "store_C", "tilestored_C"} -> 10

InOrder(ops) ==
    \A i, j \in DOMAIN ops : i < j => StepOf(ops[i].op) <= StepOf(ops[j].op)

C5_RawStoreWithoutPostOps ==
    (pc = "stored" /\ rt.do_post_ops = 0)
        => ~Executed({"post_ops", "saturate", "store_D"})

\* C6: with do_apply_comp = 0 no compensation is added to or subtracted from
\* an accumulator, neither in the store stage nor in the microkernel.
C6_NoCompensationWhenOff ==
    rt.do_apply_comp = 0
        => ~Executed(CompensationInStore \cup CompensationInMicrokernel)

\* C7: a step of the store pipeline is executed only if its flag is nonzero,
\* do_apply_comp for the compensation and do_post_ops for every other step.
C7_StepsGuardedByFlags ==
    /\ rt.do_apply_comp = 0 => ~Executed(CompensationInStore)
    /\ rt.do_post_ops = 0
          => ~Executed({"alpha", "beta", "cvtdq2ps", "scale", "bias", "post_ops",
                        "dst_scale", "zp_c", "saturate", "store_D"})

\* ====================================================================
\* The microkernels on the vector register file: which physical register
\* every role is, what the emitted instructions read from memory, and where
\* the contributions of a cell end up.
\* ====================================================================
MaxBdBlock == 4
MaxLdBlock2 == 3
MaxCalls == 2

\* bdb_loop: one broadcast register per row and one load register, chosen for
\* int8 when the block leaves enough registers.
n_bcast_1_load(d) ==
    IF d.is_tmm THEN FALSE
    ELSE LET ld_block2 == IF d.ldb2 > 0 THEN d.ld_block2
                          ELSE IF d.ldb2_tail > 0 THEN d.ldb2_tail ELSE 1
             free_vregs == max_effective_vregs(d)
                           - (IF d.req_s8s8_compensation THEN 1 ELSE 0)
         IN  IF d.hint_loop_order # "brgemm_lo_default"
             THEN d.hint_loop_order = "brgemm_lo_bl_1load"
             ELSE /\ d.is_int8
                  /\ d.bd_block * (ld_block2 + 1) < free_vregs
                  /\ bd_blocks_for_rd_tail(d) = 0
                  /\ rows_for_rd_tail(d) = 0
                  /\ ~d.with_src_dyn_quant

bcst(d, bd) ==
    IF n_bcast_1_load(d)
    THEN max_effective_vregs(d) - 1 - (d.ld_block2 * d.bd_block) - bd
    ELSE 0

\* assert(idx > 0) of bcst.
bcst_assert(d, bd) == n_bcast_1_load(d) => bcst(d, bd) > 0

load(d, ld) ==
    IF n_bcast_1_load(d) THEN 0
    ELSE max_effective_vregs(d) - 1 - (d.ld_block2 * d.bd_block) - ld

\* assert(idx > 0) of load.
load_assert(d, ld) == (~n_bcast_1_load(d)) => load(d, ld) > 0

vmm_tmp(i) == i

\* The assertion of vmm_tmp.
vmm_tmp_assert(d, i) ==
    IMPLICATION(~d.is_tmm,
                i >= 0 /\ i < max_effective_vregs(d) - d.bd_block * d.ld_block2)

vmm_tail_mask == vmm_tmp(1)

vmm_one_bytes == 3

vmm_zp_a_shift == 2

vmm_inp_shift == 1

int8_ones_words(d) == d.isa_num_vregs - 1

int8_dot_product_temp(d) == d.isa_num_vregs - 2

\* gemm_microkernel_dyn_quant: the int32 accumulators of one call.
vmm_accm_tmp(d, ld_block, bd, ld) ==
    max_effective_vregs(d) - 1 - (d.ld_block2 * d.bd_block) - ld_block
    - (bd * ld_block + ld)

\* gemm_microkernel_dyn_quant: the weight zero-points.
vmm_zero_point(d, ld) == d.isa_num_vregs - 3 - ld

vmm_neg_one(d) == d.isa_num_vregs - 1

vmm_mask_low_half(d) == d.isa_num_vregs - 2

\* gemm_microkernel, weight decompression: the accumulators of bd_block == 1.
accm_tmp(d, ld_block, bd, ld) ==
    max_effective_vregs(d) - 1 - 2 * (d.ld_block2 * d.bd_block) - ld

\* gemm_microkernel, weight decompression: the weight zero-point broadcast
\* once (stride 0) and the nf4 lookup tables.
vmm_zero_points(d) ==
    IF d.dt_b = "nf4"
    THEN IF d.isa_impl = "avx2"
         THEN IF d.wei_decomp_zero_points_stride = 0
              THEN d.isa_num_vregs - 6 ELSE d.isa_num_vregs - 5
         ELSE d.isa_num_vregs - 2
    ELSE d.isa_num_vregs - 1

vmm_mask8(d) == d.isa_num_vregs - 1

vmm_mask7(d) == d.isa_num_vregs - 2

vmm_lookup(d) == d.isa_num_vregs - 1

vmm_lookup_low(d) == d.isa_num_vregs - 3

vmm_lookup_high(d) == d.isa_num_vregs - 4

\* The mask register of the nf4 lookup on avx2.
nf4_mask(d) == d.isa_num_vregs - 5

\* vmm_mask: a k-mask is applied on avx512_core only.
vmm_mask(d, mask_flag) == mask_flag /\ d.isa_impl = "avx512_core"

\* ------------------------------------------------- instructions and values
\* What a vector register holds: an accumulator [zeroed, c] as in the loop
\* nest, a vector of B, a broadcast element of A, or a constant, a scale or
\* a zero-point, by name.
ValB(ld, rd) == [b |-> <<ld, rd>>]

ValA(bd, rd) == [a |-> <<bd, rd>>]

\* A constant table or the block i of a per-column array (-1: one value
\* broadcast to every lane).
ValK(name, i) == [k |-> name, i |-> i]

IsAcc(v) == "c" \in DOMAIN v

\* Instructions.  set: dst := v, read from memory mem (lanes elements, the
\* other lanes zeroed or not; tail: the access is for the tail column block)
\* or computed.  need: dst is updated in place with operand x, which has to
\* hold v.  dot: dst += x * y, x a vector of B and y an element of A.
\* mul: dst := x * y.  fold: dst += x * y, x an accumulator, y holding v.
Ins(op, dst, x, y, v) ==
    [op |-> op, dst |-> dst, x |-> x, y |-> y, v |-> v,
     mem |-> "none", lanes |-> 0, zmask |-> TRUE, tail |-> FALSE]

Ld(dst, v, mem, lanes, zmask, tail) ==
    [op |-> "set", dst |-> dst, x |-> -1, y |-> -1, v |-> v,
     mem |-> mem, lanes |-> lanes, zmask |-> zmask, tail |-> tail]

St(src, mem, lanes, tail) ==
    [op |-> "store", dst |-> -1, x |-> src, y |-> -1, v |-> <<>>,
     mem |-> mem, lanes |-> lanes, zmask |-> TRUE, tail |-> tail]

Get(regs, i) == IF i \in DOMAIN regs THEN regs[i] ELSE Garbage

Put(regs, i, v) == IF i \in DOMAIN regs THEN [regs EXCEPT ![i] = v] ELSE regs

\* The contribution of one multiply-accumulate of call number call.
Product(vb, va, call) == <<va.a[1], vb.b[1], va.a[2], vb.b[2], call>>

Step(regs, ins, call) ==
    LET t == Get(regs, ins.dst)
        vx == Get(regs, ins.x)
        vy == Get(regs, ins.y)
        operands == "b" \in DOMAIN vx /\ "a" \in DOMAIN vy
    IN  CASE ins.op = "set" -> Put(regs, ins.dst, ins.v)
          [] ins.op = "need" ->
                IF vx = ins.v THEN regs ELSE Put(regs, ins.dst, Garbage)
          [] ins.op = "dot" ->
                IF operands /\ IsAcc(t)
                THEN Put(regs, ins.dst,
                         [t EXCEPT !.c = @ \cup {Product(vx, vy, call)}])
                ELSE Put(regs, ins.dst, Garbage)
          [] ins.op = "mul" ->
                IF operands
                THEN Put(regs, ins.dst,
                         [zeroed |-> TRUE, c |-> {Product(vx, vy, call)}])
                ELSE Put(regs, ins.dst, Garbage)
          [] ins.op = "fold" ->
                IF IsAcc(t) /\ IsAcc(vx) /\ vx.zeroed /\ vy = ins.v
                THEN Put(regs, ins.dst, [t EXCEPT !.c = @ \cup vx.c])
                ELSE Put(regs, ins.dst, Garbage)
          [] OTHER -> regs

\* The instructions lo..hi of prog, executed in order.
RECURSIVE Exec(_, _, _, _, _)
Exec(regs, prog, lo, hi, call) ==
    IF lo > hi THEN regs
    ELSE IF lo = hi THEN Step(regs, prog[lo], call)
    ELSE Only({Exec(r, prog, (lo + hi) \div 2 + 1, hi, call) :
                  r \in {Exec(regs, prog, lo, (lo + hi) \div 2, call)}})

\* for (i = 0; i < n; i++) body(i)
For(n, body(_)) == Concat([i \in 1..n |-> body(i - 1)])

\* for (rd = 0; rd < rd_loop; rd += brg.rd_step) body(rd)
ForRd(d, rd_loop_, body(_)) ==
    Concat([i \in 1..div_up(rd_loop_, d.rd_step) |-> body((i - 1) * d.rd_step)])

\* ------------------------------------------------------------ microkernels
\* The lambda broadcast of gemm_microkernel and gemm_microkernel_dyn_quant.
broadcast(d, v1, bd, rd) ==
    <<Ld(v1, ValA(bd, rd), "A", 1, TRUE, FALSE)>>
    \o If(d.req_s8s8_compensation,
          <<Ins("need", v1, vmm_inp_shift, -1, ValK("inp_shift", -1))>>)

dot_product(d, v1, v2, v3) ==
    IF d.is_int8 /\ ~d.has_int8_vnni
    THEN <<Ins("mul", int8_dot_product_temp(d), v2, v3, <<>>),
           Ins("need", int8_dot_product_temp(d), int8_ones_words(d), -1,
               ValK("ones_words", -1)),
           Ins("fold", v1, int8_dot_product_temp(d), int8_ones_words(d),
               ValK("ones_words", -1))>>
    ELSE <<Ins("dot", v1, v2, v3, <<>>)>>

\* The load of a vector of B in the plain paths (f32 and int8): under the
\* tail mask on avx512_core, load_bytes of the tail elements otherwise.
load_B(d, dst, ld, rd, ld_block2, is_ld_tail) ==
    <<Ld(dst, ValB(ld, rd), "B",
         IF is_ld_tail THEN d.ldb_tail ELSE d.ld_block, TRUE,
         is_ld_tail /\ ld + 1 = ld_block2)>>

\* The load of a vector of B in the decompression and dynamic quantization
\* paths: the destination is vmm_mask(load(ld), is_ld_tail, ...).
load_B_masked(d, dst, ld, rd, ld_block2, is_ld_tail) ==
    <<Ld(dst, ValB(ld, rd), "B",
         IF vmm_mask(d, is_ld_tail) THEN d.ldb_tail ELSE d.ld_block,
         vmm_mask(d, is_ld_tail) \/ ~is_ld_tail,
         is_ld_tail /\ ld + 1 = ld_block2)>>

\* gemm_microkernel, n_bcast_1_load.
microkernel_1load(d, bd_block, ld_block2, is_ld_tail) ==
    ForRd(d, d.rd_block, LAMBDA rd :
        For(bd_block, LAMBDA bd : broadcast(d, bcst(d, bd), bd, rd))
        \o For(ld_block2, LAMBDA ld :
              load_B(d, load(d, 0), ld, rd, ld_block2, is_ld_tail)
              \o For(bd_block, LAMBDA bd :
                    dot_product(d, accm(d, ld_block2, bd, ld), load(d, 0),
                                bcst(d, bd)))))

\* gemm_microkernel, the plain path.
microkernel_plain(d, bd_block, ld_block2, is_ld_tail) ==
    ForRd(d, d.rd_block, LAMBDA rd :
        For(ld_block2, LAMBDA ld :
            load_B(d, load(d, ld), ld, rd, ld_block2, is_ld_tail))
        \o For(bd_block, LAMBDA bd :
              broadcast(d, bcst(d, 0), bd, rd)
              \o For(ld_block2, LAMBDA ld :
                    dot_product(d, accm(d, ld_block2, bd, ld), load(d, ld),
                                bcst(d, 0)))))

\* The weight zero-point and the weight scale that column block ld needs.
wei_zero_point(d, ld) ==
    ValK("wei_zp", IF d.wei_decomp_zero_points_stride = 0 THEN -1 ELSE ld)

wei_scale(d, ld) ==
    ValK("wei_scales", IF d.wei_decomp_scales_stride = 0 THEN -1 ELSE ld)

\* A full-width load of block ld of a per-column array: no mask is applied.
load_columns(d, dst, name, ld, ld_block2, is_ld_tail) ==
    <<Ld(dst, ValK(name, ld), name, d.ld_block, ~is_ld_tail,
         is_ld_tail /\ ld + 1 = ld_block2)>>

\* gemm_microkernel, weight decompression: the nf4 lookup of one vector.
nf4_lookup(d, vmm_load) ==
    IF d.isa_impl = "avx2"
    THEN <<Ins("need", vmm_load, vmm_mask7(d), -1, ValK("mask7", -1)),
           Ins("set", nf4_mask(d), -1, -1, ValK("nf4_mask", -1)),
           Ins("need", vmm_load, vmm_lookup_low(d), -1, ValK("lookup_low", -1)),
           Ins("set", bcst(d, 0), -1, -1, ValK("nf4_res", -1)),
           Ins("need", vmm_load, vmm_mask8(d), -1, ValK("mask8", -1)),
           Ins("need", vmm_load, vmm_lookup_high(d), -1,
               ValK("lookup_high", -1)),
           Ins("need", vmm_load, bcst(d, 0), -1, ValK("nf4_res", -1)),
           Ins("need", vmm_load, nf4_mask(d), -1, ValK("nf4_mask", -1))>>
    ELSE <<Ins("need", vmm_load, vmm_lookup(d), -1, ValK("lookup", -1))>>

\* gemm_microkernel, weight decompression: the tables and the zero-point
\* loaded ahead of the reduction loop.
decomp_prologue(d) ==
    If(d.dt_b = "nf4",
       IF d.isa_impl = "avx2"
       THEN <<Ins("set", vmm_lookup_low(d), -1, -1, ValK("lookup_low", -1)),
              Ins("set", vmm_lookup_high(d), -1, -1, ValK("lookup_high", -1)),
              Ins("set", vmm_mask8(d), -1, -1, ValK("mask8", -1)),
              Ins("set", vmm_mask7(d), -1, -1, ValK("mask7", -1))>>
       ELSE <<Ins("set", vmm_lookup(d), -1, -1, ValK("lookup", -1))>>)
    \o If(d.with_wei_decomp_zero_points /\ d.wei_decomp_zero_points_stride = 0,
          <<Ld(vmm_zero_points(d), ValK("wei_zp", -1), "wei_zp", 1, TRUE,
               FALSE)>>)

\* gemm_microkernel, weight decompression: one vector of B made f32.
decomp_load(d, ld, rd, ld_block2, is_ld_tail) ==
    load_B_masked(d, load(d, ld), ld, rd, ld_block2, is_ld_tail)
    \o If(d.dt_b = "nf4", nf4_lookup(d, load(d, ld)))
    \o If(d.with_wei_decomp_zero_points,
          IF d.wei_decomp_zero_points_stride = 0
          THEN <<Ins("need", load(d, ld), vmm_zero_points(d), -1,
                     wei_zero_point(d, ld))>>
          ELSE load_columns(d, bcst(d, 0), "wei_zp", ld, ld_block2, is_ld_tail)
               \o <<Ins("need", load(d, ld), bcst(d, 0), -1,
                        wei_zero_point(d, ld))>>)
    \o If(d.with_wei_decomp_scales /\ d.bd_block # 1,
          (IF d.wei_decomp_scales_stride = 0
           THEN <<Ld(bcst(d, 0), ValK("wei_scales", -1), "wei_scales", 1, TRUE,
                     FALSE)>>
           ELSE load_columns(d, bcst(d, 0), "wei_scales", ld, ld_block2,
                             is_ld_tail))
          \o <<Ins("need", load(d, ld), bcst(d, 0), -1, wei_scale(d, ld))>>)

\* gemm_microkernel, weight decompression.
microkernel_decomp(d, bd_block, ld_block2, is_ld_tail) ==
    decomp_prologue(d)
    \o ForRd(d, d.rd_block, LAMBDA rd :
          For(ld_block2, LAMBDA ld :
              decomp_load(d, ld, rd, ld_block2, is_ld_tail))
          \o For(bd_block, LAMBDA bd :
                broadcast(d, bcst(d, 0), bd, rd)
                \o For(ld_block2, LAMBDA ld :
                      <<Ins(IF d.bd_block = 1 /\ rd = 0 THEN "mul" ELSE "dot",
                            IF d.bd_block # 1 THEN accm(d, ld_block2, bd, ld)
                            ELSE accm_tmp(d, ld_block2, bd, ld),
                            load(d, ld), bcst(d, 0), <<>>)>>)))
    \o If(d.with_wei_decomp_scales /\ d.bd_block = 1,
          For(ld_block2, LAMBDA ld :
              load_columns(d, bcst(d, 0), "wei_scales", ld, ld_block2,
                           is_ld_tail)
              \o <<Ins("fold", accm(d, ld_block2, 0, ld),
                       accm_tmp(d, ld_block2, 0, ld), bcst(d, 0),
                       wei_scale(d, ld))>>))

\* gemm_microkernel_dyn_quant: the zero-points and constants loaded and the
\* temporary accumulators zeroed ahead of the reduction loop.
dyn_quant_prologue(d, bd_block, ld_block2, is_ld_tail) ==
    If(d.with_wei_decomp_zero_points,
       IF d.wei_decomp_zero_points_stride = 0
       THEN <<Ld(vmm_zero_point(d, 0), ValK("wei_zp", -1), "wei_zp", 1, TRUE,
                 FALSE)>>
       ELSE <<Ins("set", d.isa_num_vregs - 1, -1, -1, ValK("indexes", -1))>>
            \o For(ld_block2, LAMBDA ld :
                  load_columns(d, vmm_zero_point(d, ld), "wei_zp", ld,
                               ld_block2, is_ld_tail)
                  \o <<Ins("need", vmm_zero_point(d, ld), d.isa_num_vregs - 1,
                           -1, ValK("indexes", -1))>>))
    \o <<Ins("set", vmm_neg_one(d), -1, -1, ValK("neg_one", -1)),
         Ins("set", vmm_mask_low_half(d), -1, -1, ValK("mask_low_half", -1))>>
    \o For(bd_block, LAMBDA bd : For(ld_block2, LAMBDA ld :
          <<Ins("set", vmm_accm_tmp(d, ld_block2, bd, ld), -1, -1,
                [zeroed |-> TRUE, c |-> {}])>>))

\* gemm_microkernel_dyn_quant: the scaling of the temporary accumulators of
\* row bd and their addition to the accumulators.
dyn_quant_epilogue(d, bd, ld_block2, is_ld_tail) ==
    <<Ld(bcst(d, 0), ValK("src_scales", bd), "src_scales", 1, TRUE, FALSE)>>
    \o For(ld_block2, LAMBDA ld :
          load_columns(d, load(d, ld), "wei_scales", ld, ld_block2, is_ld_tail))
    \o For(ld_block2, LAMBDA ld :
          <<Ins("need", vmm_accm_tmp(d, ld_block2, bd, ld), bcst(d, 0), -1,
                ValK("src_scales", bd)),
            Ins("fold", accm(d, ld_block2, bd, ld),
                vmm_accm_tmp(d, ld_block2, bd, ld), load(d, ld),
                ValK("wei_scales", ld))>>)

gemm_microkernel_dyn_quant(d, bd_block, ld_block2, is_ld_tail) ==
    dyn_quant_prologue(d, bd_block, ld_block2, is_ld_tail)
    \o ForRd(d, d.rd_block, LAMBDA rd :
          For(ld_block2, LAMBDA ld :
              load_B_masked(d, load(d, ld), ld, rd, ld_block2, is_ld_tail))
          \o For(bd_block, LAMBDA bd :
                broadcast(d, bcst(d, 0), bd, rd)
                \o For(ld_block2, LAMBDA ld :
                      <<Ins("dot", vmm_accm_tmp(d, ld_block2, bd, ld),
                            load(d, ld), bcst(d, 0), <<>>)>>)
                \o If(d.with_wei_decomp_zero_points,
                      <<Ins("need", bcst(d, 0), vmm_neg_one(d), -1,
                            ValK("neg_one", -1))>>
                      \o For(ld_block2, LAMBDA ld :
                            <<Ins("need", vmm_accm_tmp(d, ld_block2, bd, ld),
                                  (IF d.wei_decomp_zero_points_stride = 0
                                   THEN vmm_zero_point(d, 0)
                                   ELSE vmm_zero_point(d, ld)), -1,
                                  wei_zero_point(d, ld)),
                              Ins("need", vmm_accm_tmp(d, ld_block2, bd, ld),
                                  bcst(d, 0), -1, ValA(bd, rd))>>))))
    \o For(bd_block, LAMBDA bd :
          dyn_quant_epilogue(d, bd, ld_block2, is_ld_tail))

\* gemm_microkernel: the instructions of one call on a block without padding.
microkernel_code(d, bd_block, ld_block2, is_ld_tail) ==
    IF d.with_src_dyn_quant
    THEN gemm_microkernel_dyn_quant(d, bd_block, ld_block2, is_ld_tail)
    ELSE IF n_bcast_1_load(d)
    THEN microkernel_1load(d, bd_block, ld_block2, is_ld_tail)
    ELSE IF d.with_wei_decomp
    THEN microkernel_decomp(d, bd_block, ld_block2, is_ld_tail)
    ELSE microkernel_plain(d, bd_block, ld_block2, is_ld_tail)

\* --------------------------------------------- the microkernel on registers
\* One body of ldb_loop on a block without padding: the accumulators are
\* zeroed, gemm_microkernel is called once per batch element and reduction
\* block, and the accumulators are stored without post-ops.
\*   brg    the descriptor
\*   rt     the body: ld_block2 and is_ld_tail
\*   pc     "generate", "assert", "ldb_loop", "BS_loop" or "stored"
\*   rg     the number of microkernel calls made
\*   acc    the vector register file
\*   memC   the register contents stored to each cell of C
\*   trace  the memory accesses made
MicrokernelConfig(int8, vnni, s8s8, decomp, dt_b, zp, zps, sc, scs, dq) ==
    [is_int8 |-> int8, has_int8_vnni |-> vnni,
     req_s8s8_compensation |-> s8s8, with_wei_decomp |-> decomp,
     dt_b |-> dt_b, with_wei_decomp_zero_points |-> zp,
     wei_decomp_zero_points_stride |-> zps,
     with_wei_decomp_scales |-> sc,
     wei_decomp_scales_stride |-> scs,
     with_src_dyn_quant |-> dq]

\* zero-points or scales: absent, one value (stride 0) or one per column
PerColumn == {<<FALSE, 0>>, <<TRUE, 0>>, <<TRUE, 1>>}

MicrokernelConfigs ==
    {MicrokernelConfig(FALSE, FALSE, FALSE, FALSE, "f32", FALSE, 0, FALSE, 0,
                       FALSE)}
    \cup {MicrokernelConfig(TRUE, vnni, s8s8, FALSE, "s8", FALSE, 0, FALSE, 0,
                            FALSE) : vnni \in BOOLEAN, s8s8 \in BOOLEAN}
    \cup {MicrokernelConfig(FALSE, FALSE, FALSE, TRUE, dt_b, zp[1], zp[2],
                            sc[1], sc[2], FALSE) :
              dt_b \in {"u8", "nf4"}, zp \in PerColumn, sc \in PerColumn}
    \cup {MicrokernelConfig(TRUE, TRUE, FALSE, FALSE, "u8", zp[1], zp[2], TRUE,
                            1, TRUE) : zp \in PerColumn}

isa_num_vregs(isa) == IF isa = "avx512_core" THEN 32 ELSE 16

MicrokernelDesc(isa, bd_block, ld_block2, q) ==
    Merge(q,
          [isa_impl |-> isa, isa_num_vregs |-> isa_num_vregs(isa),
           is_tmm |-> FALSE, is_bf16 |-> FALSE, is_fp8_via_convert |-> FALSE,
           bd_block |-> bd_block, bdb_tail |-> 0, ld_block2 |-> ld_block2,
           ldb2 |-> 1, ldb2_tail |-> 0, ld_block |-> 2, ldb_tail |-> 1,
           rd_step |-> IF q.is_int8 THEN 4 ELSE 1,
           rd_block |-> IF q.is_int8 THEN 8 ELSE 2, rdb_tail |-> 0,
           reduce_dim |-> MaxCalls * (IF q.is_int8 THEN 8 ELSE 2),
           max_top_vpad |-> 0, max_bottom_vpad |-> 0,
           hint_loop_order |-> "brgemm_lo_default", zp_type_a |-> "none",
           req_cal_comp_pads |-> FALSE])

MicrokernelDescs ==
    {MicrokernelDesc(isa, bd_block, ld_block2, q) :
        isa \in {"avx2", "avx512_core"}, bd_block \in 1..MaxBdBlock,
        ld_block2 \in 1..MaxLdBlock2, q \in MicrokernelConfigs}

\* ldb_loop: the body of full column blocks and the body of the tail block.
Bodies(d) == {[ld_block2 |-> d.ld_block2, is_ld_tail |-> FALSE],
              [ld_block2 |-> 1, is_ld_tail |-> TRUE]}

InitMicrokernel ==
    /\ brg \in MicrokernelDescs
    /\ rt \in Bodies(brg)
    /\ pc = "generate"
    /\ ph = 0
    /\ rg = 0
    /\ gpr = <<>>
    /\ stack = <<>>
    /\ acc = [v \in 0..(brg.isa_num_vregs - 1) |-> Garbage]
    /\ memC = <<>>
    /\ dup = FALSE
    /\ code = <<>>
    /\ trace = <<>>

\* The index assertions evaluated while the body is emitted: load(ld) or
\* bcst(bd) in the microkernel, vmm_tmp(1) for the tail mask of avx2.
index_assertions(d, r) ==
    /\ \A ld \in 0..(r.ld_block2 - 1) : load_assert(d, ld)
    /\ \A bd \in 0..(d.bd_block - 1) : bcst_assert(d, bd)
    /\ (r.is_ld_tail /\ d.isa_impl # "avx512_core") => vmm_tmp_assert(d, 1)

\* The memory accesses of a list of instructions.
Accesses(prog) ==
    [i \in 1..Len(prog) |->
        [op |-> prog[i].op, mem |-> prog[i].mem, lanes |-> prog[i].lanes,
         zmask |-> prog[i].zmask, tail |-> prog[i].tail]]

IsAccess(a) == a.mem # "none"

\* generate: code generation stops at a failed assertion; the kernel starts
\* with the int8 helper constant set.
generate ==
    /\ pc = "generate"
    /\ IF index_assertions(brg, rt)
       THEN /\ pc' = "ldb_loop"
            /\ acc' = IF brg.is_int8 /\ ~brg.has_int8_vnni
                      THEN Put(acc, int8_ones_words(brg),
                               ValK("ones_words", -1))
                      ELSE acc
       ELSE /\ pc' = "assert"
            /\ acc' = acc
    /\ UNCHANGED <<brg, rt, ph, rg, gpr, stack, memC, dup, code, trace>>

\* ldb_loop up to the batch loop: zero_accumulators and the input shift.
ldb_loop_zero ==
    /\ pc = "ldb_loop"
    /\ \E z \in {zero_accumulators(acc, brg, FALSE, rt.ld_block2)} :
          acc' = IF brg.req_s8s8_compensation
                 THEN Put(z, vmm_inp_shift, ValK("inp_shift", -1))
                 ELSE z
    /\ pc' = "BS_loop"
    /\ UNCHANGED <<brg, rt, ph, rg, gpr, stack, memC, dup, code, trace>>

\* One call of gemm_microkernel.
microkernel_call ==
    /\ pc = "BS_loop"
    /\ rg < MaxCalls
    /\ \E prog \in {microkernel_code(brg, brg.bd_block, rt.ld_block2,
                                     rt.is_ld_tail)} :
          /\ acc' = Exec(acc, prog, 1, Len(prog), rg + 1)
          /\ trace' = trace \o SelectSeq(Accesses(prog), IsAccess)
    /\ rg' = rg + 1
    /\ UNCHANGED <<brg, rt, pc, ph, gpr, stack, memC, dup, code>>

\* The stores of store_accumulators_without_post_ops.
store_C(d, bd_block, ld_block2, is_ld_tail) ==
    For(bd_block, LAMBDA bd : For(ld_block2, LAMBDA ld :
        <<St(accm(d, ld_block2, bd, ld), "C",
             IF is_ld_tail /\ ld + 1 = ld_block2 THEN d.ldb_tail
             ELSE d.ld_block,
             is_ld_tail /\ ld + 1 = ld_block2)>>))

\* store_accumulators after the last call: the tail mask of avx2 is set and
\* every accumulator is stored to its cell.
store_registers ==
    /\ pc = "BS_loop"
    /\ rg = MaxCalls
    /\ \E a \in {IF IMPLICATION(rt.is_ld_tail, brg.isa_impl = "avx512_core")
                 THEN acc
                 ELSE Put(acc, vmm_tail_mask, ValK("tail_mask", -1))} :
          /\ acc' = a
          /\ memC' = [cell \in (0..(brg.bd_block - 1)) \X (0..(rt.ld_block2 - 1))
                        |-> Get(a, accm(brg, rt.ld_block2, cell[1], cell[2]))]
    /\ trace' = trace \o Accesses(store_C(brg, brg.bd_block, rt.ld_block2,
                                          rt.is_ld_tail))
    /\ pc' = "stored"
    /\ UNCHANGED <<brg, rt, ph, rg, gpr, stack, dup, code>>

NextMicrokernel ==
    \/ generate
    \/ ldb_loop_zero
    \/ microkernel_call
    \/ store_registers

SpecMicrokernel == InitMicrokernel /\ [][NextMicrokernel]_vars

\* ------------------------------------------- claims on the microkernel
\* The registers with a role in the reduction loop of the body r of
\* descriptor d, each with the index its role function computes.
Role(n, i, idx) == [n |-> n, i |-> i, idx |-> idx]

live_registers(d, r) ==
    {Role("accm", bd * r.ld_block2 + ld, accm(d, r.ld_block2, bd, ld)) :
        bd \in 0..(d.bd_block - 1), ld \in 0..(r.ld_block2 - 1)}
    \cup (IF n_bcast_1_load(d)
          THEN {Role("bcst", bd, bcst(d, bd)) : bd \in 0..(d.bd_block - 1)}
               \cup {Role("load", 0, load(d, 0))}
          ELSE {Role("load", ld, load(d, ld)) : ld \in 0..(r.ld_block2 - 1)}
               \cup {Role("bcst", 0, bcst(d, 0))})
    \cup (IF d.req_s8s8_compensation
          THEN {Role("vmm_inp_shift", 0, vmm_inp_shift)} ELSE {})
    \cup (IF d.is_int8 /\ ~d.has_int8_vnni
          THEN {Role("int8_ones_words", 0, int8_ones_words(d)),
                Role("int8_dot_product_temp", 0, int8_dot_product_temp(d))}
          ELSE {})
    \cup (IF d.with_src_dyn_quant
          THEN {Role("vmm_accm_tmp", bd * r.ld_block2 + ld,
                     vmm_accm_tmp(d, r.ld_block2, bd, ld)) :
                   bd \in 0..(d.bd_block - 1), ld \in 0..(r.ld_block2 - 1)}
               \cup (IF d.with_wei_decomp_zero_points
                     THEN {Role("vmm_neg_one", 0, vmm_neg_one(d))}
                          \cup {Role("vmm_zero_point", ld, vmm_zero_point(d, ld)) :
                                  ld \in IF d.wei_decomp_zero_points_stride = 0
                                         THEN {0} ELSE 0..(r.ld_block2 - 1)}
                     ELSE {})
          ELSE {})
    \cup (IF d.with_wei_decomp
          THEN (IF d.bd_block = 1
                THEN {Role("accm_tmp", ld, accm_tmp(d, r.ld_block2, 0, ld)) :
                         ld \in 0..(r.ld_block2 - 1)}
                ELSE {})
               \cup (IF d.with_wei_decomp_zero_points
                        /\ d.wei_decomp_zero_points_stride = 0
                     THEN {Role("vmm_zero_points", 0, vmm_zero_points(d))}
                     ELSE {})
               \cup (IF d.dt_b # "nf4" THEN {}
                     ELSE IF d.isa_impl = "avx2"
                     THEN {Role("vmm_lookup_low", 0, vmm_lookup_low(d)),
                           Role("vmm_lookup_high", 0, vmm_lookup_high(d)),
                           Role("vmm_mask8", 0, vmm_mask8(d)),
                           Role("vmm_mask7", 0, vmm_mask7(d)),
                           Role("nf4_mask", 0, nf4_mask(d))}
                     ELSE {Role("vmm_lookup", 0, vmm_lookup(d))})
          ELSE {})

\* The contributions that cell (bd, ld) has to hold after all the calls.
ExpectedIn(d, bd, ld) ==
    {<<bd, ld, k * d.rd_step, k * d.rd_step, call>> :
        k \in 0..(div_up(d.rd_block, d.rd_step) - 1), call \in 1..MaxCalls}

\* The block shape does not fit the register budget: an index is negative,
\* a temporary is register 0 (the broadcast register), or an operand or a
\* temporary is inside the accumulator range.
accumulator_range(d) ==
    (max_effective_vregs(d) - d.bd_block * d.ld_block2)
        ..(max_effective_vregs(d) - 1)

does_not_fit(d, r) ==
    \E x \in live_registers(d, r) :
        \/ x.idx < 0
        \/ x.n \in {"load", "bcst", "vmm_accm_tmp", "accm_tmp"}
              /\ x.idx \in accumulator_range(d)
        \/ x.n \in {"vmm_accm_tmp", "accm_tmp"} /\ x.idx = 0
        \/ x.n = "load" /\ ~n_bcast_1_load(d) /\ x.idx = 0
        \/ x.n = "bcst" /\ n_bcast_1_load(d) /\ x.idx = 0

\* C3: in a leading-dim tail body, every memory access made for the tail
\* column block touches only the first ldb_tail elements of the block, and
\* every such load leaves the other lanes of its destination zero.
C3_TailAccessesMasked ==
    \A i \in DOMAIN trace :
        (rt.is_ld_tail /\ trace[i].tail)
            => /\ trace[i].lanes <= brg.ldb_tail
               /\ trace[i].zmask

\* C8: when the index assertions of the generator pass, the registers live
\* at the same time inside the microkernel are pairwise distinct.
C8_LiveRegistersDistinct ==
    pc \notin {"generate", "assert"}
        => \A x, y \in live_registers(brg, rt) : x.idx = y.idx => x = y

\* C9: the register that zero_accumulators clears for a cell is the one that
\* ends up with every contribution of the reduction for the cell and the one
\* that store_accumulators reads.
C9_CellAccumulatesInPlace ==
    pc = "stored"
        => \A cell \in DOMAIN memC :
              memC[cell] = [zeroed |-> TRUE,
                            c |-> ExpectedIn(brg, cell[1], cell[2])]

\* C10: a descriptor whose block shape does not fit the register budget stops
\* code generation at an assertion.
C10_UnfitShapeAsserts ==
    (pc # "generate" /\ does_not_fit(brg, rt)) => pc = "assert"

\* ------------------------------------------- element types of the microkernel
\* The instructions that one microkernel emits for its operand loads and its
\* multiply-accumulate, by element type and format.
\*   brg    the descriptor: dt_a, dt_b, the type flags, the strategy
\*   rt     is_tail (the A element is read with load_bytes), is_ld_tail, rd
\*   pc     "gemm_microkernel", "load_B", "broadcast_A", "dot_product",
\*          "done" or "assert"
\*   trace  one entry [step, ins] per step emitted: the mnemonics of ins
DataTypes == {"f32", "bf16", "f16", "s8", "u8", "u4", "s4", "nf4", "f8_e5m2",
              "s32"}

Isas == {"avx2", "avx2_vnni_2", "avx512_core", "avx512_core_fp16"}

Emitted(ins) == [ok |-> TRUE, ins |-> ins]

AssertFails == [ok |-> FALSE, ins |-> <<>>]

\* gemm_microkernel and gemm_microkernel_dyn_quant: the lambda broadcast.
emit_broadcast(d, is_tail, dt) ==
    Emitted((IF is_tail THEN <<"load_bytes", "vpbroadcastd">>
             ELSE IF dt = "f32" THEN <<"vbroadcastss">>
             ELSE IF dt = "bf16"
             THEN IF d.isa_impl = "avx2_vnni_2" THEN <<"vbcstnebf162ps">>
                  ELSE <<"vpbroadcastd">>
             ELSE IF dt \in {"s8", "u8"} THEN <<"vpbroadcastd">>
             ELSE IF dt = "f16"
             THEN IF d.isa_impl = "avx2_vnni_2" THEN <<"vbcstnesh2ps">>
                  ELSE <<"vcvtph2psx">>
             ELSE <<>>)
            \o If(d.req_s8s8_compensation, <<"vpaddb">>))

\* The A operand of one row: the broadcast of the plain and dynamic
\* quantization paths, vpbroadcastw for bf16 under weight decompression,
\* nothing when the element is an embedded broadcast of the multiply.
emit_A(d, is_tail) ==
    IF d.is_tmm THEN Emitted(<<"tileloadd">>)
    ELSE IF d.embd_bcst THEN Emitted(<<>>)
    ELSE IF d.with_wei_decomp /\ ~d.with_src_dyn_quant /\ d.dt_a = "bf16"
    THEN Emitted(<<"vpbroadcastw", "vpmovzxwd", "vpslld">>)
    ELSE emit_broadcast(d, is_tail, d.dt_a)

\* gemm_microkernel, plain paths: the load of one vector of B.
emit_load_B_plain(d, is_ld_tail, rd) ==
    Emitted(IF d.dt_b = "f16"
            THEN If(d.isa_impl = "avx2_vnni_2",
                    <<IF rd % 2 = 0 THEN "vcvtneeph2ps" ELSE "vcvtneoph2ps">>)
                 \o <<IF d.isa_impl = "avx512_core_fp16" THEN "vcvtph2psx"
                      ELSE "vcvtph2ps">>
            ELSE IF d.dt_b = "bf16"
            THEN IF d.isa_impl = "avx2_vnni_2"
                 THEN <<IF rd % 2 = 0 THEN "vcvtneebf162ps"
                        ELSE "vcvtneobf162ps">>
                 ELSE <<"vpmovzxwd", "vpslld">>
            ELSE IF is_ld_tail /\ d.isa_impl \notin {"avx512_core",
                                                      "avx512_core_fp16"}
            THEN <<"load_bytes">>
            ELSE <<"vmovups">>)

\* gemm_microkernel, weight decompression: the load of one vector of B.
emit_load_B_decomp(d, rd) ==
    CASE d.dt_b = "u8" -> Emitted(<<"vpmovzxbd", "vcvtdq2ps">>)
      [] d.dt_b = "s8" -> Emitted(<<"vpmovsxbd", "vcvtdq2ps">>)
      [] d.dt_b = "u4" ->
            Emitted(<<"vpmovzxbd">>
                    \o (IF rd % 2 = 0 THEN <<"vpsrld">>
                        ELSE <<"vpslld", "vpsrld">>)
                    \o <<"vcvtdq2ps">>)
      [] d.dt_b = "s4" ->
            Emitted(<<"vpmovsxbd">>
                    \o (IF rd % 2 = 0 THEN <<"vpsrad">>
                        ELSE <<"vpslld", "vpsrad">>)
                    \o <<"vcvtdq2ps">>)
      [] d.dt_b = "nf4" ->
            Emitted(<<"vpmovzxbd">>
                    \o (IF rd % 2 = 0 THEN <<"vpsrld">>
                        ELSE <<"vpslld", "vpsrld">>)
                    \o (IF d.isa_impl = "avx2"
                        THEN <<"vpcmpgtd", "vpermd", "vpsubd", "vpermd",
                               "vblendvps">>
                        ELSE <<"vpermd">>))
      [] OTHER -> AssertFails

\* gemm_microkernel_dyn_quant: the load of one vector of B.
emit_load_B_dyn_quant(d, rd) ==
    CASE d.dt_b = "u8" -> Emitted(<<"vmovups">>)
      [] d.dt_b = "u4" ->
            Emitted(<<"vmovups">> \o If(rd % 8 = 0, <<"vpsrld">>)
                    \o <<"vandps">>)
      [] OTHER -> AssertFails

emit_B(d, is_ld_tail, rd) ==
    IF d.is_tmm THEN Emitted(<<"tileloadd">>)
    ELSE IF d.with_src_dyn_quant THEN emit_load_B_dyn_quant(d, rd)
    ELSE IF d.with_wei_decomp THEN emit_load_B_decomp(d, rd)
    ELSE emit_load_B_plain(d, is_ld_tail, rd)

isa_has_s8s8(isa) == isa = "avx2_vnni_2"

\* dot_product: no instruction when no type flag is set.
emit_dot_product(d) ==
    Emitted(IF d.is_f32 \/ d.is_f16
               \/ (d.is_bf16 /\ d.isa_impl = "avx2_vnni_2")
            THEN <<"vfmadd231ps">>
            ELSE IF d.is_bf16 THEN <<"vdpbf16ps">>
            ELSE IF d.is_int8
            THEN IF d.dt_a = "s8" /\ isa_has_s8s8(d.isa_impl)
                 THEN <<"vpdpbssd">>
                 ELSE IF d.has_int8_vnni THEN <<"vpdpbusd">>
                 ELSE <<"vpmaddubsw", "vpmaddwd", "vpaddd">>
            ELSE <<>>)

\* gemm_microkernel_amx: the lambda tdpbxxd.
tdpbxxd(d) ==
    IF d.is_fp8
    THEN IF d.is_fp8_via_convert THEN Emitted(<<"tdpfp16ps">>)
         ELSE AssertFails
    ELSE CASE d.dt_a = "bf16" /\ d.dt_b = "bf16" -> Emitted(<<"tdpbf16ps">>)
           [] d.dt_a = "f16" /\ d.dt_b = "f16" -> Emitted(<<"tdpfp16ps">>)
           [] d.dt_a = "u8" /\ d.dt_b = "u8" -> Emitted(<<"tdpbuud">>)
           [] d.dt_a = "u8" /\ d.dt_b = "s8" -> Emitted(<<"tdpbusd">>)
           [] d.dt_a = "s8" /\ d.dt_b = "u8" -> Emitted(<<"tdpbsud">>)
           [] d.dt_a = "s8" /\ d.dt_b = "s8" -> Emitted(<<"tdpbssd">>)
           [] OTHER -> AssertFails

\* The multiply-accumulate of one cell.
emit_multiply(d, rd) ==
    IF d.is_tmm THEN tdpbxxd(d)
    ELSE IF d.with_src_dyn_quant THEN Emitted(<<"vpdpbusd">>)
    ELSE IF d.with_wei_decomp
    THEN Emitted(<<IF d.bd_block = 1 /\ rd = 0 THEN "vmulps"
                   ELSE "vfmadd231ps">>)
    ELSE IF d.embd_bcst THEN Emitted(<<"vfmadd231ps">>)
    ELSE emit_dot_product(d)

\* The type flags of a descriptor agree with dt_a and dt_b.
TypeDesc(dt_a, dt_b, strategy, isa, bd_block, opt) ==
    [dt_a |-> dt_a, dt_b |-> dt_b, isa_impl |-> isa, bd_block |-> bd_block,
     is_tmm |-> strategy = "tile",
     with_wei_decomp |-> strategy = "decomp",
     with_src_dyn_quant |-> strategy = "dyn_quant",
     is_f32 |-> dt_a = "f32" /\ dt_b = "f32",
     is_f16 |-> dt_a = "f16" /\ dt_b = "f16",
     is_bf16 |-> dt_a = "bf16" /\ dt_b = "bf16",
     is_int8 |-> dt_a \in {"s8", "u8"} /\ dt_b \in {"s8", "u8"},
     is_fp8 |-> dt_a = "f8_e5m2" /\ dt_b = "f8_e5m2",
     is_fp8_via_convert |-> dt_a = "f8_e5m2" /\ dt_b = "f8_e5m2" /\ opt,
     has_int8_vnni |-> dt_a \in {"s8", "u8"} /\ dt_b \in {"s8", "u8"} /\ opt,
     req_s8s8_compensation |->
         dt_a = "s8" /\ dt_b = "s8" /\ strategy = "plain" /\ ~isa_has_s8s8(isa),
     embd_bcst |-> dt_a = "f32" /\ dt_b = "f32" /\ strategy = "plain" /\ opt]

TypeDescs ==
    {TypeDesc(dt_a, dt_b, strategy, isa, bd_block, opt) :
        dt_a \in DataTypes, dt_b \in DataTypes,
        strategy \in {"plain", "decomp", "dyn_quant", "tile"},
        isa \in Isas, bd_block \in 1..2, opt \in BOOLEAN}

InitTypes ==
    /\ brg \in TypeDescs
    /\ rt \in [is_tail : BOOLEAN, is_ld_tail : BOOLEAN, rd : 0..1]
    /\ rt.is_tail => (brg.is_bf16 \/ brg.is_int8)
    /\ pc = "gemm_microkernel"
    /\ ph = 0
    /\ rg = 0
    /\ gpr = <<>>
    /\ stack = <<>>
    /\ acc = <<>>
    /\ memC = <<>>
    /\ dup = FALSE
    /\ code = <<>>
    /\ trace = <<>>

\* One step of the emission: the instructions of e are appended, or
\* generation stops at the assertion.
EmitStep(step, e, next) ==
    /\ IF e.ok
       THEN /\ trace' = Append(trace, [step |-> step, ins |-> e.ins])
            /\ pc' = next
       ELSE /\ trace' = trace
            /\ pc' = "assert"
    /\ UNCHANGED <<brg, rt, ph, rg, gpr, stack, acc, memC, dup, code>>

\* gemm_microkernel: assert(!brg.is_fp8_via_convert()) on the vector paths.
enter_microkernel ==
    /\ pc = "gemm_microkernel"
    /\ pc' = IF ~brg.is_tmm /\ brg.is_fp8_via_convert THEN "assert"
             ELSE "load_B"
    /\ UNCHANGED <<brg, rt, ph, rg, gpr, stack, acc, memC, dup, code, trace>>

emit_operand_B ==
    /\ pc = "load_B"
    /\ EmitStep("B", emit_B(brg, rt.is_ld_tail, rt.rd), "broadcast_A")

emit_operand_A ==
    /\ pc = "broadcast_A"
    /\ EmitStep("A", emit_A(brg, rt.is_tail), "dot_product")

emit_mac ==
    /\ pc = "dot_product"
    /\ EmitStep("mac", emit_multiply(brg, rt.rd), "done")

NextTypes ==
    \/ enter_microkernel
    \/ emit_operand_B
    \/ emit_operand_A
    \/ emit_mac

SpecTypes == InitTypes /\ [][NextTypes]_vars

\* C11: generation never completes with a microkernel whose operand load or
\* multiply-accumulate was not emitted: an element type that the strategy
\* does not implement stops generation at an assertion.
C11_UnimplementedTypesAssert ==
    pc = "done"
        => \A i \in DOMAIN trace :
              \/ trace[i].ins # <<>>
              \/ trace[i].step = "A" /\ brg.embd_bcst

\* --------------------------------------------------------------------
\* Construction of brgemm_kernel_common_t followed by create_kernel.
\* rt holds what the environment decides: whether operator new yields an
\* object, the status of po_injector_t::create, whether the build keeps
\* assert() (ndebug = FALSE) and whether the code buffer is obtained.
\* acc holds the members of the objects, code the emitted stream and
\* trace the status that create_kernel returned.
\* --------------------------------------------------------------------
InjectorStatus == {"success", "out_of_memory", "unimplemented"}

CreateDescs ==
    [with_eltwise : BOOLEAN, with_binary : BOOLEAN, with_sum : BOOLEAN,
     with_bias : BOOLEAN, is_bf16_emu : BOOLEAN]

post_ops_configured(d) == d.with_eltwise \/ d.with_binary \/ d.with_sum

InitCreate ==
    /\ brg \in CreateDescs
    /\ rt \in [alloc : BOOLEAN, injector : InjectorStatus,
               ndebug : BOOLEAN, jit_ker : BOOLEAN]
    /\ pc = "new"
    /\ ph = 0
    /\ rg = 0
    /\ gpr = <<>>
    /\ stack = <<>>
    /\ acc = [brgemm_kernel_ |-> FALSE, postops_injector_ |-> FALSE,
              bf16_emu_ |-> FALSE]
    /\ memC = <<>>
    /\ dup = FALSE
    /\ code = <<>>
    /\ trace = <<>>

\* brgemm_kernel_common_t(abrd) : brgemm_kernel_(new jit_brgemm_kernel_t(abrd)).
\* The constructor of jit_brgemm_kernel_t assigns postops_injector_ with
\* safe_ptr_assign and asserts on a failed status; with NDEBUG the assert
\* is no statement and construction goes on with a null injector.
construct_kernel ==
    /\ pc = "new"
    /\ IF ~rt.alloc
       THEN /\ acc' = acc
            /\ pc' = "constructed"
       ELSE LET st == IF post_ops_configured(brg) THEN rt.injector
                      ELSE "success"
            IN  /\ acc' = [brgemm_kernel_ |-> TRUE,
                           postops_injector_ |->
                               post_ops_configured(brg) /\ st = "success",
                           bf16_emu_ |-> brg.is_bf16_emu]
                /\ pc' = IF st # "success" /\ ~rt.ndebug THEN "assert"
                         ELSE "constructed"
    /\ UNCHANGED <<brg, rt, ph, rg, gpr, stack, memC, dup, code, trace>>

\* create_kernel: if (brgemm_kernel_) return brgemm_kernel_->create_kernel();
\* return status::out_of_memory;
create_kernel ==
    /\ pc = "constructed"
    /\ IF acc.brgemm_kernel_
       THEN /\ pc' = "generate"
            /\ trace' = trace
       ELSE /\ pc' = "returned"
            /\ trace' = <<"out_of_memory">>
    /\ UNCHANGED <<brg, rt, ph, rg, gpr, stack, acc, memC, dup, code>>

\* generate() as far as the post-op chain is concerned: the store path
\* calls apply_post_ops only if (postops_injector_), and the table of the
\* eltwise injector is prepared through the pointer without a test, which
\* with a null pointer is undefined: the call crashes or has no effect.
generate_post_ops ==
    /\ pc = "generate"
    /\ \E crash \in BOOLEAN :
          LET null_deref == brg.with_eltwise /\ ~acc.postops_injector_
              stream == <<"preamble", "bdb_loop">>
                  \o (IF brg.with_bias THEN <<"bias">> ELSE <<>>)
                  \o (IF acc.postops_injector_ THEN <<"apply_post_ops">>
                      ELSE <<>>)
                  \o <<"postamble">>
                  \o (IF brg.with_eltwise /\ acc.postops_injector_
                      THEN <<"prepare_table">> ELSE <<>>)
          IN  /\ crash => null_deref
              /\ code' = stream
              /\ pc' = IF crash THEN "crash" ELSE "generated"
    /\ UNCHANGED <<brg, rt, ph, rg, gpr, stack, acc, memC, dup, trace>>

\* The status of brgemm_kernel_->create_kernel(): generate() is void, so the
\* status depends on the code buffer only.
return_status ==
    /\ pc = "generated"
    /\ trace' = <<IF rt.jit_ker THEN "success" ELSE "runtime_error">>
    /\ pc' = "returned"
    /\ UNCHANGED <<brg, rt, ph, rg, gpr, stack, acc, memC, dup, code>>

NextCreate ==
    \/ construct_kernel
    \/ create_kernel
    \/ generate_post_ops
    \/ return_status

SpecCreate == InitCreate /\ [][NextCreate]_vars

\* C12: create_kernel returns success only for a kernel object that exists,
\* whose injector was created when eltwise, binary or sum post-ops are
\* configured, and whose stream applies the post-op chain.
C12_SuccessMeansCompleteKernel ==
    (pc = "returned" /\ trace = <<"success">>)
        => /\ acc.brgemm_kernel_
           /\ post_ops_configured(brg)
                 => /\ acc.postops_injector_
                    /\ \E i \in DOMAIN code : code[i] = "apply_post_ops"

\* --------------------------------------------------------------------
\* The immediates of the generated stream.  Two constructions from one
\* descriptor are generated one after the other; rt gives for each the
\* address of the kernel object (this) and the load address of the image
\* that holds the function-local static tables.  code[k] is the stream of
\* construction k, ph the construction being generated.
\* --------------------------------------------------------------------
HeapAddresses == {4096, 8192}

ImageBases == {65536, 131072}

\* mov(reg, imm64) and the other instructions of a stream
MovImm(reg, imm) == [op |-> "mov", dst |-> reg, imm |-> imm]

Op(name) == [op |-> name, dst |-> "", imm |-> 0]

Dd(value) == [op |-> "dd", dst |-> "", imm |-> value]

\* offsets of brg.sum_scale and brg.sum_zp in the kernel object, and of the
\* static tables in the image (distinct places, the values do not matter)
member_offset(name) == IF name = "sum_scale" THEN 64 ELSE 68

table_offset(name) ==
    CASE name = "negative_one" -> 0
      [] name = "mask_low_half" -> 64
      [] name = "index_table" -> 128
      [] name = "lookup" -> 192
      [] name = "mask8" -> 256
      [] OTHER -> 320

\* reinterpret_cast<size_t>(&brg.member) of the object at address this
member_address(this, name) == this + member_offset(name)

\* (size_t)table of a static table of the image loaded at base
table_address(base, name) == base + table_offset(name)

\* the bits of a float (the two scales of the model)
float2int(f) == IF f = 1 THEN 1065353216 ELSE 1073741824

simd_w(d) == IF d.isa_impl = "avx512_core" THEN 16 ELSE 8

\* gemm_microkernel_dyn_quant: the index table for per-column zero points,
\* then negative_one and mask_low_half
dyn_quant_tables(d, base) ==
    (IF d.with_wei_decomp_zero_points /\ d.wei_decomp_zero_points_stride # 0
     THEN <<MovImm("reg_ptr", table_address(base, "index_table")),
            Op("vmovups")>>
     ELSE <<>>)
    \o <<MovImm("reg_ptr", table_address(base, "negative_one")), Op("vmovups"),
         MovImm("reg_ptr", table_address(base, "mask_low_half")),
         Op("vmovups")>>

\* gemm_microkernel with weight decompression: the nf4 lookup tables
nf4_tables(d, base) ==
    IF d.dt_b # "nf4" THEN <<>>
    ELSE IF d.isa_impl = "avx2"
    THEN <<MovImm("reg_ptr", table_address(base, "lookup")), Op("vmovups"),
           MovImm("reg_ptr", table_address(base, "lookup")), Op("vmovups"),
           MovImm("reg_ptr", table_address(base, "mask8")), Op("vmovups"),
           MovImm("reg_ptr", table_address(base, "mask7")), Op("vmovups")>>
    ELSE <<MovImm("reg_ptr", table_address(base, "lookup")), Op("vmovups")>>

microkernel_tables(d, base) ==
    IF d.with_src_dyn_quant THEN dyn_quant_tables(d, base)
    ELSE IF d.with_wei_decomp THEN nf4_tables(d, base)
    ELSE <<>>

\* apply_post_ops: the lambda sum_injector for one accumulator cell
sum_injector(d, this) ==
    LET p_sum_scale_reg_set == d.sum_scale # 1
        p_sum_zp_reg_set == d.sum_zp # 0
        avx512 == d.isa_impl = "avx512_core"
    IN  (IF p_sum_zp_reg_set
         THEN <<MovImm("reg_ptr_sum_zp", member_address(this, "sum_zp"))>>
              \o (IF avx512 THEN <<Op("vcvtdq2ps")>>
                  ELSE <<Op("vpbroadcastd"), Op("vcvtdq2ps")>>)
         ELSE <<>>)
        \o (IF p_sum_scale_reg_set
            THEN IF avx512
                 THEN <<MovImm("reg_ptr_sum_scale",
                               member_address(this, "sum_scale"))>>
                 ELSE <<Op("lea")>>
            ELSE <<>>)
        \o <<Op("cvt2ps")>>
        \o (IF p_sum_zp_reg_set THEN <<Op("vsubps")>> ELSE <<>>)
        \o <<Op(IF p_sum_scale_reg_set THEN "vfmadd231ps" ELSE "vaddps")>>

\* generate: the data emitted after the postamble for the sum scale
sum_zp_scale_data(d) ==
    IF d.isa_impl # "avx512_core" /\ d.with_sum /\ d.sum_scale # 1
    THEN [i \in 1..simd_w(d) |-> Dd(float2int(d.sum_scale))]
    ELSE <<>>

StreamDescs ==
    {[isa_impl |-> isa, with_sum |-> ws, sum_scale |-> sc, sum_zp |-> zp,
      with_src_dyn_quant |-> st = "dyn_quant",
      with_wei_decomp |-> st \in {"dyn_quant", "decomp"},
      dt_b |-> dt, with_wei_decomp_zero_points |-> z[1],
      wei_decomp_zero_points_stride |-> z[2]] :
        isa \in {"avx2", "avx512_core"}, ws \in BOOLEAN, sc \in 1..2,
        zp \in {0, 3}, st \in {"plain", "decomp", "dyn_quant"},
        dt \in {"u8", "nf4"}, z \in PerColumn}

InitStream ==
    /\ brg \in {d \in StreamDescs :
                  /\ d.with_src_dyn_quant => d.dt_b = "u8"
                  /\ (~d.with_wei_decomp)
                        => d.dt_b = "u8" /\ ~d.with_wei_decomp_zero_points
                  /\ (~d.with_sum) => d.sum_scale = 1 /\ d.sum_zp = 0}
    /\ rt \in [this : [1..2 -> HeapAddresses], image : [1..2 -> ImageBases]]
    /\ pc = "microkernel"
    /\ ph = 1
    /\ rg = 0
    /\ gpr = <<>>
    /\ stack = <<>>
    /\ acc = <<>>
    /\ memC = <<>>
    /\ dup = FALSE
    /\ code = <<<<>>, <<>>>>
    /\ trace = <<>>

Emit(ins, next) ==
    /\ code' = [code EXCEPT ![ph] = @ \o ins]
    /\ pc' = next
    /\ UNCHANGED <<brg, rt, ph, rg, gpr, stack, acc, memC, dup, trace>>

generate_microkernel ==
    /\ pc = "microkernel"
    /\ Emit(<<Op("preamble")>> \o microkernel_tables(brg, rt.image[ph])
                \o <<Op("dot_product")>>,
            "apply_post_ops")

generate_apply_post_ops ==
    /\ pc = "apply_post_ops"
    /\ Emit(IF brg.with_sum THEN sum_injector(brg, rt.this[ph]) ELSE <<>>,
            "data")

generate_data ==
    /\ pc = "data"
    /\ Emit(<<Op("postamble")>> \o sum_zp_scale_data(brg), "generated")

\* the second construction from the same descriptor
next_construction ==
    /\ pc = "generated"
    /\ IF ph = 1 THEN ph' = 2 /\ pc' = "microkernel"
       ELSE ph' = ph /\ pc' = "done"
    /\ UNCHANGED <<brg, rt, rg, gpr, stack, acc, memC, dup, code, trace>>

NextStream ==
    \/ generate_microkernel
    \/ generate_apply_post_ops
    \/ generate_data
    \/ next_construction

SpecStream == InitStream /\ [][NextStream]_vars

\* C13: after two constructions from one descriptor the two instruction
\* streams are identical.
C13_StreamsIdentical ==
    pc = "done" => code[1] = code[2]

\* --------------------------------------------------------------------
\* Two invocations of one generated kernel.  code[i] is the sequence of
\* memory-relevant instructions that invocation i executes (the stream is
\* the same, the runtime flag do_post_ops selects the branch), gpr[i] its
\* general registers, stack[i] its frame, pc[i] the function it is about
\* to run and memC the log of every memory access made so far.
\* --------------------------------------------------------------------
reg_buf == reg_rdb_loop

reg_buf_aux == param1

reg_bias == reg_rdb_loop

reg_aux_bias == reg_rdb_loop

reg_tmp_gpr == reg_rdb_loop

reg_aux_zp_comp_b == reg_rdb_loop

reg_aux_compensation == reg_rdb_loop

reg_do_post_ops == reg_rdb_loop

reg_ptr_sum_zp == reg_bdb_loop

reg64_fp8_aux == reg_A

\* instructions: mov(reg, ptr[param1 + field]), mov(ptr[rsp + slot], reg),
\* mov(reg, ptr[rsp + slot]), add(reg, n), mov(reg, imm), mov(dst, src),
\* a store to ptr[reg + n] and a load from ptr[reg + n]
MIns(op, a, b, n) == [op |-> op, a |-> a, b |-> b, n |-> n]

MParam(reg, field) == MIns("param", reg, field, 0)

MPush(slot, reg) == MIns("push", reg, slot, 0)

MPop(reg, slot) == MIns("pop", reg, slot, 0)

MAdd(reg, n) == MIns("add", reg, "", n)

MImm(reg, seg, n) == MIns("imm", reg, seg, n)

MMov(dst, src) == MIns("mov", dst, src, 0)

MStore(reg, n) == MIns("store", reg, "", n)

MLoad(reg, n) == MIns("load", reg, "", n)

Access(i, v, w) == [seg |-> v.seg, off |-> v.off, inv |-> i, w |-> w]

StackSeg(i) == IF i = 1 THEN "stack1" ELSE "stack2"

\* one instruction of invocation i on the state m = [g, s, log]
MStep(i, m, ins, params) ==
    CASE ins.op = "param" ->
            [m EXCEPT !.g = Mov(@, ins.a, params[ins.b]),
                      !.log = @ \cup {Access(i, Ptr("params", 0), FALSE)}]
      [] ins.op = "push" ->
            [m EXCEPT !.s = [x \in DOMAIN @ \cup {ins.b} |->
                                IF x = ins.b THEN m.g[ins.a] ELSE @[x]],
                      !.log = @ \cup {Access(i, Ptr(StackSeg(i), 0), TRUE)}]
      [] ins.op = "pop" ->
            [m EXCEPT !.g = Mov(@, ins.a, IF ins.b \in DOMAIN m.s
                                          THEN m.s[ins.b] ELSE Undef),
                      !.log = @ \cup {Access(i, Ptr(StackSeg(i), 0), FALSE)}]
      [] ins.op = "add" -> [m EXCEPT !.g = add(@, ins.a, ins.n)]
      [] ins.op = "imm" -> [m EXCEPT !.g = Mov(@, ins.a, Ptr(ins.b, ins.n))]
      [] ins.op = "mov" -> [m EXCEPT !.g = mov(@, ins.a, ins.b)]
      [] ins.op = "store" ->
            [m EXCEPT !.log = @ \cup
                {Access(i, AddImm(m.g[ins.a], ins.n), TRUE)}]
      [] OTHER ->
            [m EXCEPT !.log = @ \cup
                {Access(i, AddImm(m.g[ins.a], ins.n), FALSE)}]

RECURSIVE MExec(_, _, _, _, _, _)
MExec(i, m, prog, lo, hi, params) ==
    IF lo > hi THEN m
    ELSE IF lo = hi THEN MStep(i, m, prog[lo], params)
    ELSE Only({MExec(i, x, prog, (lo + hi) \div 2 + 1, hi, params) :
                  x \in {MExec(i, m, prog, lo, (lo + hi) \div 2, params)}})

\* ---- the instructions of the kernel that touch memory
read_params_mem(d) ==
    <<MParam(reg_A, "ptr_A"), MParam(reg_B, "ptr_B"),
      MParam(reg_C, "ptr_C"), MParam(reg_D, "ptr_D")>>
    \o If(d.is_tmm \/ d.req_s8s8_compensation,
          <<MParam(reg_buf, "ptr_buf"), MPush("reg_buf_offs_", reg_buf)>>)
    \o If(d.with_bias,
          <<MParam(reg_bias, "ptr_bias"), MPush("reg_bias_offs_", reg_bias)>>)
    \o If(d.zp_type_b,
          <<MParam(reg_rdb_loop, "b_zp_compensations"),
            MPush("reg_zp_comp_b_offs_", reg_rdb_loop)>>)
    \o <<MParam(reg_do_post_ops, "do_post_ops"),
         MPush("reg_do_post_ops_offs_", reg_do_post_ops)>>

copy_post_ops_mem(d) ==
    <<MMov(reg_aux_C, reg_C), MMov(reg_aux_D, reg_D)>>
    \o If(d.with_bias,
          <<MPop(reg_bias, "reg_bias_offs_"),
            MPush("reg_aux_bias_offs_", reg_bias)>>)
    \o If(d.req_s8s8_compensation,
          <<MPop(reg_aux_compensation, "reg_buf_offs_"),
            MPush("reg_aux_comp_offs_", reg_aux_compensation)>>)
    \o If(d.zp_type_b,
          <<MPop(reg_aux_zp_comp_b, "reg_zp_comp_b_offs_"),
            MPush("reg_aux_zp_comp_b_offs_", reg_aux_zp_comp_b)>>)

tile_size == 1024

zmm_width_in_bytes_ == 64

transform_offset(d) ==
    IF d.use_interleave_stores THEN d.bd_block2 * d.ld_block2 * tile_size
    ELSE 0

\* maybe_tileloadd_nt with maybe_pre_process_data for an fp8 operand
maybe_tileloadd_nt_mem(d, reg_base) ==
    IF d.is_fp8_via_convert
    THEN <<MPush("reg_val_tmp_1_", reg64_fp8_aux),
           MPush("reg_val_tmp_2_", reg_buf_aux),
           MPop(reg_buf_aux, "reg_buf_offs_"),
           MAdd(reg_buf_aux, transform_offset(d)),
           MMov(reg_tmp_gpr, reg_base)>>
         \o For(d.num_rows, LAMBDA r :
                <<MLoad(reg_tmp_gpr, 0),
                  MStore(reg_buf_aux, r * zmm_width_in_bytes_),
                  MAdd(reg_tmp_gpr, 64)>>)
         \o <<MLoad(reg_buf_aux, 0),
              MPop(reg64_fp8_aux, "reg_val_tmp_1_"),
              MPop(reg_buf_aux, "reg_val_tmp_2_")>>
    ELSE <<MLoad(reg_base, 0)>>

\* ldb_loop around the microkernel: reg_D and reg_aux_D share registers with
\* reg_aux_A and reg_BS_loop and are kept on the stack meanwhile
microkernel_mem(d) ==
    <<MPush("reg_D_offs_", reg_D), MPush("reg_aux_D_offs_", reg_aux_D),
      MImm(reg_BS_loop, "int", 1), MMov(reg_aux_A, reg_A),
      MMov(reg_aux_B, reg_B)>>
    \o (IF d.is_tmm
        THEN maybe_tileloadd_nt_mem(d, reg_aux_A)
                 \o maybe_tileloadd_nt_mem(d, reg_aux_B)
        ELSE <<MLoad(reg_aux_A, 0), MLoad(reg_aux_B, 0)>>)
    \o <<MPop(reg_D, "reg_D_offs_"), MPop(reg_aux_D, "reg_aux_D_offs_")>>

apply_alpha_beta_mem(d) ==
    If(d.alpha # 1, <<MImm(reg_tmp_gpr, "int", d.alpha)>>)
    \o If(d.beta # 0, <<MLoad(reg_aux_C, 0)>>)

apply_compensation_mem(d) ==
    If(d.req_s8s8_compensation,
       <<MPop(reg_aux_compensation, "reg_aux_comp_offs_"),
         MLoad(reg_aux_compensation, 0)>>)
    \o If(d.zp_type_b,
          <<MPop(reg_aux_zp_comp_b, "reg_aux_zp_comp_b_offs_"),
            MLoad(reg_aux_zp_comp_b, 0)>>)

store_apply_post_ops_mem(d) ==
    If(d.with_bias,
       <<MPop(reg_aux_bias, "reg_aux_bias_offs_"), MLoad(reg_aux_bias, 0)>>)
    \o If(d.with_sum,
          If(d.sum_zp # 0,
             <<MImm(reg_ptr_sum_zp, "kernel_object", member_offset("sum_zp")),
               MLoad(reg_ptr_sum_zp, 0)>>)
          \o <<MLoad(reg_aux_D, 0)>>)
    \o <<MStore(reg_aux_D, 0)>>

store_without_post_ops_mem(d) == <<MStore(reg_aux_C, 0)>>

advance_ldb_post_op_regs_mem(d, n) ==
    If(d.with_bias,
       <<MPop(reg_aux_bias, "reg_aux_bias_offs_"), MAdd(reg_aux_bias, n),
         MPush("reg_aux_bias_offs_", reg_aux_bias)>>)

advance_bdb_post_op_regs_mem(d, n) ==
    If(d.zp_type_b,
       <<MPop(reg_aux_zp_comp_b, "reg_aux_zp_comp_b_offs_"),
         MAdd(reg_aux_zp_comp_b, n),
         MPush("reg_aux_zp_comp_b_offs_", reg_aux_zp_comp_b)>>)

post_processed_never(d, is_last_bdb) == FALSE

\* store_accumulators_amx: whether reg_buf is reloaded after the post-op
\* registers of a row block were moved
post_processed(d, is_last_bdb) ==
    \/ d.ld_block2 > 1 /\ d.with_bias
    \/ ~is_last_bdb /\ d.zp_type_b

store_accumulators_amx_mem(d, apply_post_ops) ==
    LET through_buf == d.beta # 0 \/ d.alpha # 1 \/ d.postops
        cell(bdb, ldb) ==
            (IF through_buf
             THEN <<MStore(reg_buf, 0), MLoad(reg_buf, 0)>>
                  \o apply_compensation_mem(d)
                  \o apply_alpha_beta_mem(d)
                  \o (IF apply_post_ops
                      THEN store_apply_post_ops_mem(d)
                           \o If(ldb < d.ld_block2 - 1,
                                 advance_ldb_post_op_regs_mem(d, 64)
                                     \o <<MAdd(reg_aux_D, 64)>>)
                      ELSE store_without_post_ops_mem(d))
                  \o <<MPop(reg_buf, "reg_buf_offs_")>>
             ELSE <<MStore(reg_aux_C, 0)>>)
            \o If(ldb < d.ld_block2 - 1, <<MAdd(reg_aux_C, 64)>>)
        row(bdb) ==
            For(d.ld_block2, LAMBDA ldb : cell(bdb, ldb))
            \o If(d.ld_block2 > 1,
                  <<MAdd(reg_aux_C, 0 - 64 * (d.ld_block2 - 1))>>)
            \o If(bdb < d.bd_block2 - 1, <<MAdd(reg_aux_C, tile_size)>>)
            \o If(apply_post_ops,
                  If(d.ld_block2 > 1,
                     <<MAdd(reg_aux_D, 0 - 64 * (d.ld_block2 - 1))>>
                     \o advance_ldb_post_op_regs_mem(
                            d, 0 - 64 * (d.ld_block2 - 1)))
                  \o If(bdb < d.bd_block2 - 1,
                        <<MAdd(reg_aux_D, tile_size)>>
                        \o advance_bdb_post_op_regs_mem(d, 64))
                  \o If(post_processed(d, bdb = d.bd_block2 - 1),
                        <<MPop(reg_buf, "reg_buf_offs_")>>))
    IN  <<MPush("reg_aux_C_bdb_loop_backup_offs_", reg_aux_C)>>
        \o If(apply_post_ops,
              <<MPush("reg_aux_D_bdb_loop_backup_offs_", reg_aux_D)>>)
        \o <<MPop(reg_buf, "reg_buf_offs_")>>
        \o For(d.bd_block2, row)
        \o <<MPop(reg_aux_C, "reg_aux_C_bdb_loop_backup_offs_")>>
        \o If(apply_post_ops,
              <<MPop(reg_aux_D, "reg_aux_D_bdb_loop_backup_offs_")>>)

store_accumulators_mem(d, do_post_ops) ==
    <<MPop(reg_do_post_ops, "reg_do_post_ops_offs_")>>
    \o (IF d.is_tmm
        THEN store_accumulators_amx_mem(d, d.postops /\ do_post_ops)
        ELSE apply_compensation_mem(d)
             \o apply_alpha_beta_mem(d)
             \o (IF d.postops /\ do_post_ops
                 THEN store_apply_post_ops_mem(d)
                 ELSE store_without_post_ops_mem(d)))

\* the parameter block of invocation i: inputs may be shared, C, D and the
\* scratch buffer are the invocation's own (with s8s8 compensation ptr_buf
\* carries the compensation values, an input)
KernelParams(d, i, do_post_ops) ==
    [ptr_A |-> Ptr("A", 0), ptr_B |-> Ptr("B", 0),
     ptr_C |-> Ptr(IF i = 1 THEN "C1" ELSE "C2", 0),
     ptr_D |-> Ptr(IF i = 1 THEN "D1" ELSE "D2", 0),
     ptr_buf |-> IF d.req_s8s8_compensation THEN Ptr("compensation", 0)
                 ELSE Ptr(IF i = 1 THEN "buf1" ELSE "buf2", 0),
     ptr_bias |-> Ptr("bias", 0),
     b_zp_compensations |-> Ptr("zp_comp_b", 0),
     do_post_ops |-> Imm(IF do_post_ops THEN 1 ELSE 0)]

OwnSegments(i) ==
    IF i = 1 THEN {"stack1", "C1", "D1", "buf1"}
    ELSE {"stack2", "C2", "D2", "buf2"}

ConcurrentDescs ==
    {[is_tmm |-> m[1], is_fp8_via_convert |-> m[2],
      req_s8s8_compensation |-> m[3], with_bias |-> wb, zp_type_b |-> zb,
      with_sum |-> s[1], sum_zp |-> s[2], beta |-> be, alpha |-> al,
      postops |-> wb \/ zb \/ s[1] \/ dd, bd_block2 |-> b2, ld_block2 |-> l2,
      use_interleave_stores |-> m[2] /\ il, num_rows |-> 2] :
        m \in {<<FALSE, FALSE, FALSE>>, <<FALSE, FALSE, TRUE>>,
               <<TRUE, FALSE, FALSE>>, <<TRUE, TRUE, FALSE>>},
        wb \in BOOLEAN, zb \in BOOLEAN,
        s \in {<<FALSE, 0>>, <<TRUE, 0>>, <<TRUE, 3>>},
        be \in 0..1, al \in 1..2, dd \in BOOLEAN, b2 \in 1..2, l2 \in 1..2,
        il \in BOOLEAN}

kernel_functions(d, do_post_ops) ==
    [read_params |-> read_params_mem(d),
     ldb_loop |-> copy_post_ops_mem(d) \o microkernel_mem(d),
     store_accumulators |-> store_accumulators_mem(d, do_post_ops)]

InitConcurrent ==
    /\ brg \in {d \in ConcurrentDescs : (~d.is_tmm) => d.bd_block2 = 1}
    /\ rt \in [1..2 -> [do_post_ops : BOOLEAN]]
    /\ pc = [i \in 1..2 |-> "read_params"]
    /\ ph = 0
    /\ rg = 0
    /\ gpr = [i \in 1..2 |-> [r \in Regs |-> Undef]]
    /\ stack = [i \in 1..2 |-> <<>>]
    /\ acc = <<>>
    /\ memC = {}
    /\ dup = FALSE
    /\ code = [i \in 1..2 |-> kernel_functions(brg, rt[i].do_post_ops)]
    /\ trace = <<>>

\* invocation i runs the function it stands at
run(i, f, next) ==
    /\ pc[i] = f
    /\ \E m \in {MExec(i, [g |-> gpr[i], s |-> stack[i], log |-> memC],
                       code[i][f], 1, Len(code[i][f]),
                       KernelParams(brg, i, rt[i].do_post_ops))} :
          /\ gpr' = [gpr EXCEPT ![i] = m.g]
          /\ stack' = [stack EXCEPT ![i] = m.s]
          /\ memC' = m.log
    /\ pc' = [pc EXCEPT ![i] = next]
    /\ UNCHANGED <<brg, rt, ph, rg, acc, dup, code, trace>>

invoke_read_params(i) == run(i, "read_params", "ldb_loop")

invoke_ldb_loop(i) == run(i, "ldb_loop", "store_accumulators")

invoke_store_accumulators(i) == run(i, "store_accumulators", "postamble")

NextConcurrent ==
    \E i \in 1..2 :
        \/ invoke_read_params(i)
        \/ invoke_ldb_loop(i)
        \/ invoke_store_accumulators(i)

SpecConcurrent == InitConcurrent /\ [][NextConcurrent]_vars

MaxStride == 3

\* bdb_loop_amx: the looped body, the bdb2 tail and the bdb tail
bdb_phases_amx(d) ==
    (IF d.bd_block2 >= 1
     THEN <<Phase(FALSE, FALSE, FALSE, 0, TRUE, TRUE, d.bdb2, 0)>> ELSE <<>>)
    \o (IF d.bdb2_tail > 0
        THEN <<Phase(FALSE, FALSE, FALSE, 0, TRUE, FALSE, -1, 0)>> ELSE <<>>)
    \o (IF d.bdb_tail > 0
        THEN <<Phase(TRUE, FALSE, FALSE, 0, FALSE, FALSE, -1, 0)>> ELSE <<>>)

bdb_phases_of(d) ==
    IF d.is_tmm THEN bdb_phases_amx(d)
    ELSE IF vpad_exist(d) THEN bdb_phases_vpad(d)
    ELSE bdb_phases_no_vpad(d)

TermDesc(tmm, nb, bt, ld, nr, mbs, s8, zpa, pads, al, vp, gsk) ==
    [is_tmm |-> tmm, bd_block2 |-> 1, bdb2 |-> nb, bdb2_tail |-> 0,
     bdb |-> nb, bdb_tail |-> bt, bd_block |-> 2, bcast_dim |-> nb * 2 + bt,
     ld_block2 |-> 2, ldb2 |-> ld[1], ldb2_tail |-> ld[2], ldb_tail |-> ld[3],
     rdb |-> nr, rdb_tail |-> 1, rd_step |-> 4, reduce_dim |-> nr * 4 + 1,
     is_bf16 |-> FALSE, is_int8 |-> TRUE, max_bs |-> mbs,
     req_s8s8_compensation |-> s8,
     zp_type_a |-> IF zpa THEN "per_tensor" ELSE "none",
     req_cal_comp_pads |-> pads, alpha |-> al,
     max_top_vpad |-> vp, max_bottom_vpad |-> vp,
     generate_skip_accumulation |-> gsk,
     typesize_A |-> 1, LDA |-> MaxStride, LDB |-> MaxStride, typesize_B |-> 1]

TermDescs ==
    {TermDesc(tmm, nb, bt, ld, nr, mbs, s8, zpa, pads, al, vp, gsk) :
        tmm \in BOOLEAN, nb \in {0, 1, 3}, bt \in 0..1,
        ld \in {<<2, 0, 0>>, <<1, 1, 1>>, <<0, 0, 1>>}, nr \in {0, 2},
        mbs \in 1..2, s8 \in BOOLEAN, zpa \in BOOLEAN, pads \in BOOLEAN,
        al \in 0..1, vp \in 0..1, gsk \in BOOLEAN}

InitTerm ==
    /\ brg \in {d \in TermDescs :
                  /\ d.bdb + d.bdb_tail >= 1
                  /\ d.is_tmm => ~d.req_s8s8_compensation /\ d.max_top_vpad = 0
                                    /\ d.rdb = 2
                  /\ (d.alpha = 0 \/ d.generate_skip_accumulation)
                        => d.rdb = 2 /\ d.max_bs = 2 /\ d.bdb_tail = 0
                  /\ d.req_cal_comp_pads
                        => d.req_s8s8_compensation \/ d.zp_type_a # "none"}
    /\ rt \in [BS : -1..2, vpad : {-2, 0, 1}, skip_accm : BOOLEAN]
    /\ rt.skip_accm => brg.generate_skip_accumulation
    /\ (rt.vpad # 0) => vpad_exist(brg)
    /\ (rt.BS > 1 \/ rt.BS < 1) => brg.max_bs = 2
    /\ pc = "bdb_loop"
    /\ ph = 1
    /\ rg = 1
    /\ gpr = [r9 |-> 0, r8 |-> 0, rax |-> 0, rbx |-> 0]
    /\ stack = [bdb |-> 0, ldb |-> 0]
    /\ acc = 0
    /\ memC = <<>>
    /\ dup = FALSE
    /\ code = bdb_phases_of(brg)
    /\ trace = <<>>

TermUnchanged == UNCHANGED <<brg, rt, memC, dup, code, trace>>

\* entry of bdb phase ph: mov(reg_bdb_loop, n) and, in tile mode, its copy
\* to the stack
term_enter_phase(i) ==
    IF i > Len(code)
    THEN /\ pc' = "postamble"
         /\ UNCHANGED <<gpr, stack>>
    ELSE /\ pc' = "do_ldb_loop"
         /\ gpr' = IF code[i].init # -1
                   THEN [gpr EXCEPT !.r9 = code[i].init] ELSE gpr
         /\ stack' = IF code[i].init # -1 /\ brg.is_tmm
                     THEN [stack EXCEPT !.bdb = code[i].init] ELSE stack

term_bdb_loop ==
    /\ pc = "bdb_loop"
    /\ term_enter_phase(1)
    /\ ph' = 1 /\ rg' = 1
    /\ UNCHANGED acc
    /\ TermUnchanged

\* ldb_loop call rg of do_ldb_loop: mov(reg_ldb_loop, ldb_loop_length)
term_ldb_loop ==
    /\ pc = "do_ldb_loop"
    /\ LET calls == do_ldb_loop(brg)
       IN  IF rg > Len(calls)
           THEN /\ pc' = "bdb_loop_body_end"
                /\ UNCHANGED <<gpr, stack>>
           ELSE /\ pc' = "ldb_loop_label"
                /\ gpr' = IF is_ldb_loop_(brg)
                          THEN [gpr EXCEPT !.r8 = calls[rg].ldb_loop_length]
                          ELSE gpr
                /\ stack' = IF is_ldb_loop_(brg) /\ brg.is_tmm
                            THEN [stack EXCEPT
                                     !.ldb = calls[rg].ldb_loop_length]
                            ELSE stack
    /\ UNCHANGED <<ph, rg, acc>>
    /\ TermUnchanged

\* from ldb_loop_label to BS_loop_label: the tile strides are moved into
\* reg_stride_lda (= reg_bdb_loop) and reg_stride_ldb (= reg_ldb_loop), then
\* the compensation set-up saves and restores reg_bdb_loop through
\* reg_bdb_loop_offs_
term_ldb_loop_head ==
    /\ pc = "ldb_loop_label"
    /\ IF brg.alpha # 0 /\ ~rt.skip_accm
       THEN LET g1 == IF brg.is_tmm
                      THEN [gpr EXCEPT !.r9 = brg.typesize_A * brg.LDA,
                                       !.r8 = brg.typesize_B * brg.LDB]
                      ELSE gpr
                saved == \/ brg.req_s8s8_compensation
                         \/ need_comp_pads(brg) /\ brg.zp_type_a # "none"
            IN  /\ stack' = IF saved THEN [stack EXCEPT !.bdb = g1.r9] ELSE stack
                /\ gpr' = IF brg.max_bs > 1 THEN [g1 EXCEPT !.rax = rt.BS]
                          ELSE g1
                /\ pc' = "BS_loop_label"
       ELSE /\ pc' = "store_accumulators"
            /\ UNCHANGED <<gpr, stack>>
    /\ UNCHANGED <<ph, rg, acc>>
    /\ TermUnchanged

\* one batch element: the vpad dispatch selects a body, whose rdb loop
\* starts with mov(reg_rdb_loop, brg.rdb)
term_BS_loop ==
    /\ pc = "BS_loop_label"
    /\ acc' = IF code[ph].check_top_vpad \/ code[ph].check_bottom_vpad
              THEN vpad_dispatch(brg, 0 - brg.max_bottom_vpad, rt.vpad,
                                 code[ph].is_bdb_tail, code[ph].check_top_vpad,
                                 code[ph].check_bottom_vpad)
              ELSE 0
    /\ IF ~brg.is_tmm /\ brg.rdb > 0
       THEN /\ gpr' = [gpr EXCEPT !.rbx = brg.rdb]
            /\ pc' = "rdb_loop_label"
       ELSE /\ gpr' = gpr
            /\ pc' = "BS_loop_end"
    /\ UNCHANGED <<ph, rg, stack>>
    /\ TermUnchanged

\* dec(reg_rdb_loop); cmp(reg_rdb_loop, 0); jg(rdb_loop_label)
term_rdb_loop ==
    /\ pc = "rdb_loop_label"
    /\ gpr' = [gpr EXCEPT !.rbx = @ - 1]
    /\ pc' = IF gpr.rbx - 1 > 0 THEN "rdb_loop_label" ELSE "BS_loop_end"
    /\ UNCHANGED <<ph, rg, acc, stack>>
    /\ TermUnchanged

\* dec(reg_BS_loop); cmp(reg_BS_loop, 0); jg(BS_loop_label)
term_BS_loop_end ==
    /\ pc = "BS_loop_end"
    /\ IF brg.max_bs > 1
       THEN /\ gpr' = [gpr EXCEPT !.rax = @ - 1]
            /\ pc' = IF gpr.rax - 1 > 0 THEN "BS_loop_label"
                     ELSE "store_accumulators"
       ELSE /\ gpr' = gpr
            /\ pc' = "store_accumulators"
    /\ UNCHANGED <<ph, rg, acc, stack>>
    /\ TermUnchanged

\* store_accumulators, ldb_regs_shift and the end of the ldb loop
term_store_accumulators ==
    /\ pc = "store_accumulators"
    /\ IF is_ldb_loop_(brg)
       THEN LET n == (IF brg.is_tmm THEN stack.ldb ELSE gpr.r8) - 1
            IN  /\ gpr' = [gpr EXCEPT !.r8 = n]
                /\ stack' = IF brg.is_tmm THEN [stack EXCEPT !.ldb = n]
                            ELSE stack
                /\ IF n > 0
                   THEN pc' = "ldb_loop_label" /\ rg' = rg
                   ELSE pc' = "do_ldb_loop" /\ rg' = rg + 1
       ELSE /\ pc' = "do_ldb_loop" /\ rg' = rg + 1
            /\ UNCHANGED <<gpr, stack>>
    /\ UNCHANGED <<ph, acc>>
    /\ TermUnchanged

\* the end of a bdb phase: a looped phase decrements reg_bdb_loop (in tile
\* mode the copy on the stack) and jumps back while it is above cmpv
term_bdb_loop_body_end ==
    /\ pc = "bdb_loop_body_end"
    /\ rg' = 1
    /\ IF code[ph].looped
       THEN LET n == (IF brg.is_tmm THEN stack.bdb ELSE gpr.r9) - 1
            IN  IF n > code[ph].cmpv
                THEN /\ gpr' = [gpr EXCEPT !.r9 = n]
                     /\ stack' = IF brg.is_tmm THEN [stack EXCEPT !.bdb = n]
                                 ELSE stack
                     /\ pc' = "do_ldb_loop"
                     /\ ph' = ph
                ELSE /\ \E g \in {[gpr EXCEPT !.r9 = n]} :
                        \E s \in {IF brg.is_tmm THEN [stack EXCEPT !.bdb = n]
                                  ELSE stack} :
                           IF ph + 1 > Len(code)
                           THEN pc' = "postamble" /\ gpr' = g /\ stack' = s
                           ELSE /\ pc' = "do_ldb_loop"
                                /\ gpr' = IF code[ph + 1].init # -1
                                          THEN [g EXCEPT !.r9 = code[ph + 1].init]
                                          ELSE g
                                /\ stack' = s
                     /\ ph' = ph + 1
       ELSE /\ term_enter_phase(ph + 1)
            /\ ph' = ph + 1
    /\ UNCHANGED acc
    /\ TermUnchanged

NextTerm ==
    \/ term_bdb_loop
    \/ term_ldb_loop
    \/ term_ldb_loop_head
    \/ term_BS_loop
    \/ term_rdb_loop
    \/ term_BS_loop_end
    \/ term_store_accumulators
    \/ term_bdb_loop_body_end

SpecTerm == InitTerm /\ [][NextTerm]_vars /\ WF_vars(NextTerm)

\* C15: every invocation eventually reaches the postamble.
C15_ReachesPostamble == <>(pc = "postamble")

\* --------------------------------------------------------------------
\* The stack frame of one invocation: stack is the set of slots written so
\* far, trace the set of slots that were read before any write, rg the ldb
\* iteration.  The functions are the sequences of mov(ptr[rsp + slot], reg)
\* and mov(reg, ptr[rsp + slot]) they execute.
\* --------------------------------------------------------------------
reg_wei_scales == reg_rdb_loop

reg_wei_zp == reg_rdb_loop

reg_ic == reg_rdb_loop

reg_src_scales == reg_rdb_loop

reg_scales == reg_rdb_loop

reg_aux_scales == reg_aux_B

\* the slots a sequence of instructions reads before it (or an earlier
\* sequence, written) wrote them
unwritten_reads(prog, written) ==
    {prog[k].b : k \in {k \in DOMAIN prog :
        /\ prog[k].op = "pop"
        /\ prog[k].b \notin written
        /\ \A j \in 1..(k - 1) :
              ~(prog[j].op = "push" /\ prog[j].b = prog[k].b)}}

writes(prog) == {prog[k].b : k \in {k \in DOMAIN prog : prog[k].op = "push"}}

read_params_stack(d) ==
    If(d.type = "offs",
       <<MParam(reg_offs_batch, "batch"),
         MPush("origin_offs_batch_offs_", reg_offs_batch)>>)
    \o If(d.type = "strd",
          <<MParam(reg_strd_batch, "batch"),
            MPush("origin_offs_batch_offs_", reg_strd_batch)>>)
    \o If(d.with_bias,
          <<MParam(reg_bias, "ptr_bias"), MPush("reg_bias_offs_", reg_bias)>>)
    \o If(d.with_scales,
          <<MParam(reg_scales, "ptr_scales"),
            MPush("reg_scales_offs_", reg_scales)>>)
    \o If(d.with_wei_decomp,
          <<MParam(reg_wei_scales, "ptr_wei_scales"),
            MPush("reg_wei_scales_offs_", reg_wei_scales),
            MParam(reg_wei_zp, "ptr_wei_zero_points"),
            MPush("reg_wei_zero_points_offs_", reg_wei_zp),
            MParam(reg_ic, "ic"), MPush("reg_ic_offs_", reg_ic)>>)
    \o If(d.with_src_dyn_quant,
          <<MParam(reg_src_scales, "ptr_src_scales"),
            MPush("reg_src_scales_offs_", reg_src_scales)>>)
    \o <<MParam(reg_do_post_ops, "do_post_ops"),
         MPush("reg_do_post_ops_offs_", reg_do_post_ops)>>

copy_post_ops_stack(d, is_reg_tail) ==
    If(~is_reg_tail,
       If(d.with_bias,
          <<MPop(reg_bias, "reg_bias_offs_"),
            MPush("reg_aux_bias_offs_", reg_bias)>>)
       \o If(d.with_scales,
             <<MPop(reg_scales, "reg_scales_offs_"),
               MPush("reg_aux_scales_offs_", reg_scales)>>)
       \o If(d.with_wei_decomp_scales,
             <<MPop(reg_wei_scales, "reg_wei_scales_offs_"),
               MPush("reg_aux_wei_scales_offs_", reg_wei_scales),
               MPush("reg_aux2_wei_scales_offs_", reg_wei_scales)>>)
       \o If(d.with_wei_decomp_zero_points,
             <<MPop(reg_wei_zp, "reg_wei_zero_points_offs_"),
               MPush("reg_aux_wei_zero_points_offs_", reg_wei_zp),
               MPush("reg_aux2_wei_zero_points_offs_", reg_wei_zp)>>))
    \o If(d.with_grouped_wei_decomp,
          <<MPop(reg_ic, "reg_ic_offs_"), MPush("reg_aux_ic_offs_", reg_ic)>>)
    \o If(d.with_src_dyn_quant,
          <<MPop(reg_src_scales, "reg_src_scales_offs_"),
            MPush("reg_aux_src_scales_offs_", reg_src_scales),
            MPush("reg_aux2_src_scales_offs_", reg_src_scales)>>)

restore_A_B_matrices_stack(d) ==
    If(d.type = "offs", <<MPop(reg_offs_batch, "origin_offs_batch_offs_")>>)
    \o If(d.type = "strd", <<MPop(reg_strd_batch, "origin_offs_batch_offs_")>>)

\* the grouped-decompression block at the head of the rdb loop
ic_group_shift_stack(src_offs, dst_offs) ==
    <<MPop(reg_aux_D, "reg_aux_ic_offs_"), MPop(reg_bdb_loop, src_offs),
      MPush(dst_offs, reg_bdb_loop)>>

rdb_loop_stack(d) ==
    If(d.with_grouped_wei_decomp
           /\ (d.wei_decomp_scales_stride # 0
                  \/ d.wei_decomp_zero_points_stride # 0),
       <<MPush("reg_bdb_loop_offs_", reg_bdb_loop),
         MPush("reg_aux2_D_offs_", reg_aux_D),
         MPush("reg_ldb_loop_offs_", reg_ldb_loop),
         MPush("reg_reg_a_offset_offs_", reg_a_offset)>>
       \o If(d.with_wei_decomp_scales /\ d.wei_decomp_scales_stride # 0,
             ic_group_shift_stack("reg_aux_wei_scales_offs_",
                                  "reg_aux2_wei_scales_offs_"))
       \o If(d.with_wei_decomp_zero_points
                 /\ d.wei_decomp_zero_points_stride # 0,
             ic_group_shift_stack("reg_aux_wei_zero_points_offs_",
                                  "reg_aux2_wei_zero_points_offs_"))
       \o If(d.with_src_dyn_quant,
             ic_group_shift_stack("reg_aux_src_scales_offs_",
                                  "reg_aux2_src_scales_offs_"))
       \o <<MPop(reg_aux_D, "reg_aux_ic_offs_"),
            MPush("reg_aux_ic_offs_", reg_aux_D),
            MPop(reg_bdb_loop, "reg_bdb_loop_offs_"),
            MPop(reg_aux_D, "reg_aux2_D_offs_"),
            MPop(reg_ldb_loop, "reg_ldb_loop_offs_"),
            MPop(reg_a_offset, "reg_reg_a_offset_offs_")>>)

\* gemm_microkernel and gemm_microkernel_dyn_quant: the pointers of the
\* weight scales, zero points and source scales
gemm_microkernel_stack(d) ==
    IF d.with_src_dyn_quant
    THEN <<MPush("reg_bdb_loop_offs_", reg_bdb_loop),
           MPush("reg_ldb_loop_offs_", reg_ldb_loop)>>
         \o If(d.with_wei_decomp_zero_points,
               <<MPop(reg_ldb_loop, "reg_aux2_wei_zero_points_offs_")>>)
         \o <<MPop(reg_bdb_loop, "reg_aux2_wei_scales_offs_"),
              MPop(reg_ldb_loop, "reg_aux2_src_scales_offs_"),
              MPop(reg_ldb_loop, "reg_ldb_loop_offs_"),
              MPop(reg_bdb_loop, "reg_bdb_loop_offs_")>>
    ELSE If(d.with_wei_decomp,
            <<MPush("reg_bdb_loop_offs_", reg_bdb_loop),
              MPush("reg_ldb_loop_offs_", reg_ldb_loop),
              MPop(reg_bdb_loop, "reg_aux2_wei_scales_offs_"),
              MPop(reg_ldb_loop, "reg_aux2_wei_zero_points_offs_"),
              MPop(reg_ldb_loop, "reg_ldb_loop_offs_"),
              MPop(reg_bdb_loop, "reg_bdb_loop_offs_")>>)

ldb_regs_shift_stack(d) ==
    If(d.with_bias,
       <<MPop(reg_aux_bias, "reg_aux_bias_offs_"),
         MPush("reg_aux_bias_offs_", reg_aux_bias)>>)
    \o If(d.with_scales,
          <<MPop(reg_aux_scales, "reg_aux_scales_offs_"),
            MPush("reg_aux_scales_offs_", reg_aux_scales)>>)
    \o If(d.with_wei_decomp,
          <<MPop(reg_wei_scales, "reg_aux_wei_scales_offs_"),
            MPush("reg_aux_wei_scales_offs_", reg_wei_scales),
            MPush("reg_aux2_wei_scales_offs_", reg_wei_scales),
            MPop(reg_wei_zp, "reg_aux_wei_zero_points_offs_"),
            MPush("reg_aux_wei_zero_points_offs_", reg_wei_zp),
            MPush("reg_aux2_wei_zero_points_offs_", reg_wei_zp)>>)

StackDescs ==
    {[type |-> ty, with_bias |-> wb, with_scales |-> ws,
      with_wei_decomp |-> sc[1] \/ zp[1],
      with_wei_decomp_scales |-> sc[1], wei_decomp_scales_stride |-> sc[2],
      with_wei_decomp_zero_points |-> zp[1],
      wei_decomp_zero_points_stride |-> zp[2],
      with_grouped_wei_decomp |-> gr /\ (sc[1] \/ zp[1]),
      with_src_dyn_quant |-> dq /\ sc[1],
      ld_block2 |-> 2, ldb2 |-> nl, ldb2_tail |-> 0, ldb_tail |-> lt,
      rdb |-> nr] :
        ty \in Types, wb \in BOOLEAN, ws \in BOOLEAN, sc \in PerColumn,
        zp \in PerColumn, gr \in BOOLEAN, dq \in BOOLEAN, nl \in 1..2,
        lt \in 0..1, nr \in 0..1}

InitStack ==
    /\ brg \in StackDescs
    /\ rt = <<>>
    /\ pc = "read_params"
    /\ ph = 1
    /\ rg = 0
    /\ gpr = <<>>
    /\ stack = {}
    /\ acc = <<>>
    /\ memC = <<>>
    /\ dup = FALSE
    /\ code = do_ldb_loop(brg)
    /\ trace = {}

\* a function runs: its reads of unwritten slots are recorded, its writes
\* added
stack_run(prog, next) ==
    /\ trace' = trace \cup unwritten_reads(prog, stack)
    /\ stack' = stack \cup writes(prog)
    /\ pc' = next
    /\ UNCHANGED <<brg, rt, gpr, acc, memC, dup, code>>

stack_read_params ==
    /\ pc = "read_params"
    /\ stack_run(read_params_stack(brg), "ldb_loop")
    /\ UNCHANGED <<ph, rg>>

\* ldb_loop call ph of do_ldb_loop
stack_ldb_loop ==
    /\ pc = "ldb_loop"
    /\ IF ph > Len(code)
       THEN /\ pc' = "postamble"
            /\ UNCHANGED <<brg, rt, gpr, acc, memC, dup, code, trace, stack>>
            /\ rg' = rg
       ELSE /\ stack_run(copy_post_ops_stack(brg, code[ph].is_reg_tail),
                         "ldb_loop_label")
            /\ rg' = code[ph].ldb_loop_length
    /\ ph' = ph

\* one iteration of the ldb loop up to the store: restore_A_B_matrices, the
\* rdb loop with the microkernel
stack_ldb_iteration ==
    /\ pc = "ldb_loop_label"
    /\ stack_run(restore_A_B_matrices_stack(brg)
                     \o If(brg.rdb > 0, rdb_loop_stack(brg))
                     \o gemm_microkernel_stack(brg),
                 "store_accumulators")
    /\ UNCHANGED <<ph, rg>>

\* the end of the iteration: ldb_regs_shift if there is an ldb loop
stack_ldb_regs_shift ==
    /\ pc = "store_accumulators"
    /\ stack_run(If(is_ldb_loop_(brg), ldb_regs_shift_stack(brg)),
                 IF is_ldb_loop_(brg) /\ rg - 1 > 0 THEN "ldb_loop_label"
                 ELSE "ldb_loop")
    /\ rg' = rg - 1
    /\ ph' = IF is_ldb_loop_(brg) /\ rg - 1 > 0 THEN ph ELSE ph + 1

NextStack ==
    \/ stack_read_params
    \/ stack_ldb_loop
    \/ stack_ldb_iteration
    \/ stack_ldb_regs_shift

SpecStack == InitStack /\ [][NextStack]_vars

\* C16: no stack slot is read before it was written in the invocation.
C16_SlotsWrittenBeforeRead == trace = {}

\* --------------------------------------------------------------------
\* The 4-bit weight decode.  A 32-bit lane is its eight nibbles, lowest
\* first; shifts are by whole nibbles (the code shifts by 4 and by 28).
\* rt.bytes are the four bytes of B under one lane, rg the rd of the rd
\* loop, trace the lanes decoded so far, by rd.
\* --------------------------------------------------------------------
MaxRd == 2

Lane(bytes) == [i \in 1..8 |-> IF i % 2 = 1 THEN bytes[(i + 1) \div 2] % 16
                                ELSE bytes[i \div 2] \div 16]

\* the signed value of a lane
as_int32(x) ==
    x[1] + 16 * x[2] + 256 * x[3] + 4096 * x[4] + 65536 * x[5]
        + 1048576 * x[6] + 16777216 * x[7]
        + 268435456 * (IF x[8] >= 8 THEN x[8] - 16 ELSE x[8])

\* byte k of a lane of bytes
byte_of(x, k) == x[2 * k - 1] + 16 * x[2 * k]

vpmovzxbd(byte) == Lane(<<byte, 0, 0, 0>>)

vpmovsxbd(byte) ==
    Lane(IF byte >= 128 THEN <<byte, 255, 255, 255>> ELSE <<byte, 0, 0, 0>>)

vpslld(x, n) == [i \in 1..8 |-> IF i > n \div 4 THEN x[i - n \div 4] ELSE 0]

vpsrld(x, n) == [i \in 1..8 |-> IF i + n \div 4 <= 8 THEN x[i + n \div 4] ELSE 0]

vpsrad_logical(x, n) == vpsrld(x, n)

vpsrad(x, n) ==
    [i \in 1..8 |-> IF i + n \div 4 <= 8 THEN x[i + n \div 4]
                    ELSE IF x[8] >= 8 THEN 15 ELSE 0]

\* uni_vandps with mask_low_half, 0x0F in every byte
vandps_mask_low_half(x) == [i \in 1..8 |-> IF i % 2 = 1 THEN x[i] ELSE 0]

\* gemm_microkernel, weights decompression: the lane of one column before
\* the conversion to float (u4, s4) or the table lookup (nf4)
decomp_load_4bit(d, byte, rd) ==
    IF d.dt_b \in {"u4", "nf4"}
    THEN IF rd % 2 = 0 THEN vpsrld(vpmovzxbd(byte), 4)
         ELSE vpsrld(vpslld(vpmovzxbd(byte), 28), 28)
    ELSE IF rd % 2 = 0 THEN vpsrad(vpmovsxbd(byte), 4)
         ELSE vpsrad(vpslld(vpmovsxbd(byte), 28), 28)

\* gemm_microkernel_dyn_quant: the lane of four u4 weights
dyn_quant_load_4bit(d, bytes, rd) ==
    vandps_mask_low_half(IF rd % 8 = 0 THEN vpsrld(Lane(bytes), 4)
                         ELSE Lane(bytes))

NibbleBytes == {0, 7, 8, 15, 16, 112, 127, 128, 143, 165, 240, 255}

NibbleDescs ==
    {[dt_b |-> dt, with_src_dyn_quant |-> FALSE, rd_step |-> 1] :
        dt \in {"u4", "s4", "nf4"}}
    \cup {[dt_b |-> "u4", with_src_dyn_quant |-> TRUE, rd_step |-> 4]}

InitNibble ==
    /\ brg \in NibbleDescs
    /\ rt \in [1..4 -> NibbleBytes]
    /\ rt[3] = rt[1] /\ rt[4] \in {0, 255}
    /\ pc = "rd_loop"
    /\ ph = 1
    /\ rg = 0
    /\ gpr = <<>>
    /\ stack = <<>>
    /\ acc = <<>>
    /\ memC = <<>>
    /\ dup = FALSE
    /\ code = <<>>
    /\ trace = <<>>

NibbleUnchanged == UNCHANGED <<brg, rt, ph, gpr, stack, acc, memC, dup, code>>

\* one pass of the rd loop of the decompression microkernel
nibble_decomp_load ==
    /\ pc = "rd_loop" /\ ~brg.with_src_dyn_quant
    /\ rg < MaxRd * brg.rd_step
    /\ trace' = Append(trace, decomp_load_4bit(brg, rt[1], rg))
    /\ rg' = rg + brg.rd_step
    /\ pc' = pc
    /\ NibbleUnchanged

\* one pass of the rd loop of the dynamic quantization microkernel
nibble_dyn_quant_load ==
    /\ pc = "rd_loop" /\ brg.with_src_dyn_quant
    /\ rg < MaxRd * brg.rd_step
    /\ trace' = Append(trace, dyn_quant_load_4bit(brg, rt, rg))
    /\ rg' = rg + brg.rd_step
    /\ pc' = pc
    /\ NibbleUnchanged

nibble_rd_loop_end ==
    /\ pc = "rd_loop"
    /\ rg >= MaxRd * brg.rd_step
    /\ pc' = "done"
    /\ UNCHANGED <<rg, trace>>
    /\ NibbleUnchanged

NextNibble ==
    \/ nibble_decomp_load
    \/ nibble_dyn_quant_load
    \/ nibble_rd_loop_end

SpecNibble == InitNibble /\ [][NextNibble]_vars

sign_extend_4(n) == IF n >= 8 THEN n - 16 ELSE n

\* C17: pass n of the rd loop decodes the high nibble of the byte on even
\* n and the low nibble on odd n, unsigned for u4 and nf4 and sign-extended
\* for s4, in every byte of the lane in the dynamic quantization path, so
\* that packing the two passes gives the stored byte again.
C17_NibbleDecode ==
    /\ \A n \in DOMAIN trace :
          IF brg.with_src_dyn_quant
          THEN \A k \in 1..4 :
                  byte_of(trace[n], k) = (IF n % 2 = 1 THEN rt[k] \div 16
                                          ELSE rt[k] % 16)
          ELSE as_int32(trace[n])
                   = (IF brg.dt_b = "s4"
                      THEN sign_extend_4(IF n % 2 = 1 THEN rt[1] \div 16
                                         ELSE rt[1] % 16)
                      ELSE IF n % 2 = 1 THEN rt[1] \div 16 ELSE rt[1] % 16)
    /\ Len(trace) >= 2 =>
          IF brg.with_src_dyn_quant
          THEN \A k \in 1..4 :
                  16 * byte_of(trace[1], k) + byte_of(trace[2], k) = rt[k]
          ELSE 16 * (as_int32(trace[1]) % 16) + (as_int32(trace[2]) % 16)
                   = rt[1]

C17_Witness ==
    /\ pc = "done" /\ Len(trace) = 2
    /\ brg.dt_b = "s4" /\ rt[1] = 143
    /\ as_int32(trace[1]) = -8 /\ as_int32(trace[2]) = -1

\* --------------------------------------------------------------------
\* The store pipeline over every destination type.
\* --------------------------------------------------------------------
DstTypes == {"s8", "u8", "s32", "f32", "bf16", "f16", "f8_e5m2", "f8_e4m3"}

StoreTypeDescs ==
    {StoreDesc(tmm, 1, be, sc, bi, po,
               Merge(CompConfig("none", "none", FALSE, FALSE, 0),
                     [is_int8 |-> i8, with_src_dyn_quant |-> FALSE,
                      dt_c |-> IF i8 THEN "s32" ELSE "f32", dt_d |-> dd]),
               dc) :
        tmm \in BOOLEAN, be \in 0..1, sc \in BOOLEAN, bi \in BOOLEAN,
        po \in BOOLEAN, i8 \in BOOLEAN, dd \in DstTypes, dc \in DstConfigs}

InitStoreTypes ==
    /\ brg \in StoreTypeDescs
    /\ rt \in StoreParams(brg)
    /\ pc = "microkernel"
    /\ ph = 0
    /\ rg = 0
    /\ gpr = [r \in Regs |-> Undef]
    /\ stack = [x \in Slots |-> Undef]
    /\ acc = <<>>
    /\ memC = <<>>
    /\ dup = FALSE
    /\ code = [skip_accumulation |-> FALSE, path |-> "none"]
    /\ trace = <<>>

SpecStoreTypes == InitStoreTypes /\ [][NextStore]_vars

\* the store went through store_accumulators_apply_post_ops
PostOpsStorePath == pc = "stored" /\ Executed({"store_D"})

\* C18 as stated: on the post-ops store path the accumulators are saturated
\* if and only if the destination type is s8 or u8.
C18_SaturationIffNarrowInteger ==
    PostOpsStorePath => (Executed({"saturate"}) <=> brg.dt_d \in {"s8", "u8"})

\* C18 amended: on the post-ops store path the accumulators are saturated
\* if and only if the destination type is s8, u8 or s32.
C18_SaturationIffInteger ==
    PostOpsStorePath
        => (Executed({"saturate"}) <=> brg.dt_d \in {"s8", "u8", "s32"})

C18_Witness ==
    /\ PostOpsStorePath
    /\ brg.dt_d = "s32" /\ ~brg.is_int8
    /\ Executed({"saturate"})

\* --------------------------------------------------------------------
\* The leading-dimension regimes of one row block with the post-op
\* pointers.  gpr and stack are the registers and the frame, ph the row
\* block, rg the ldb_loop call of do_ldb_loop, acc the columns processed
\* in this row block, trace the stores: the byte offset in C at which each
\* iteration stored and the columns it stored.
\* --------------------------------------------------------------------
reg_stride_lda == reg_bdb_loop

reg_stride_ldb == reg_ldb_loop

reg_s8_input_shift == reg_bdb_loop

reg_compensation == reg_rdb_loop

reg_zp_comp_a == reg_rdb_loop

reg_aux_zp_comp_a == reg_rdb_loop

reg_zp_c_values == reg_rdb_loop

reg_aux_zp_c_values == reg_rdb_loop

bias_offset_one_block(d, ld, is_tail) == d.typesize_bias * d.ld_block

bias_offset(d, ld, is_tail) ==
    IF is_tail THEN d.typesize_bias * d.ldb_tail
    ELSE d.typesize_bias * ld * d.ld_block

compensations_offset(d, ld, is_tail) ==
    IF is_tail THEN 4 * d.ldb_tail ELSE 4 * ld * d.ld_block

scales_offset(d, ld, is_tail) ==
    IF is_tail THEN d.is_oc_scale * 4 * d.ldb_tail
    ELSE d.is_oc_scale * 4 * ld * d.ld_block

zp_comp_a_offset(d, ld, is_tail) ==
    IF is_tail THEN 4 * d.ldb_tail ELSE 4 * ld * d.ld_block

zp_c_values_offset(d, ld, is_tail) ==
    IF d.zp_type_c = "per_n"
    THEN IF is_tail THEN 4 * d.ldb_tail ELSE 4 * ld * d.ld_block
    ELSE 0

\* mov(reg, ptr[rsp + slot]); add(reg, n); mov(ptr[rsp + slot], reg)
shift_slot(reg, slot, n) == <<MPop(reg, slot), MAdd(reg, n), MPush(slot, reg)>>

read_params_po(d) ==
    <<MParam(reg_A, "ptr_A"), MParam(reg_B, "ptr_B"),
      MParam(reg_C, "ptr_C"), MParam(reg_D, "ptr_D"), MParam(reg_BS, "BS")>>
    \o If(d.is_tmm \/ d.req_s8s8_compensation,
          <<MParam(reg_buf, "ptr_buf"), MPush("reg_buf_offs_", reg_buf)>>)
    \o If(d.with_bias,
          <<MParam(reg_bias, "ptr_bias"), MPush("reg_bias_offs_", reg_bias)>>)
    \o If(d.with_scales,
          <<MParam(reg_scales, "ptr_scales"),
            MPush("reg_scales_offs_", reg_scales)>>)
    \o If(d.zp_type_a # "none",
          <<MParam(reg_zp_comp_a, "a_zp_compensations"),
            MPush("reg_zp_comp_a_offs_", reg_zp_comp_a)>>)
    \o If(d.zp_type_c # "none",
          <<MParam(reg_zp_c_values, "c_zp_values"),
            MPush("reg_zp_c_values_offs_", reg_zp_c_values)>>)
    \o <<MParam(reg_do_post_ops, "do_post_ops"),
         MPush("reg_do_post_ops_offs_", reg_do_post_ops)>>

\* reg_comp_offs_ is reg_buf_offs_
copy_post_ops_po(d, is_reg_tail) ==
    If(~is_reg_tail,
       <<MMov(reg_aux_C, reg_C), MMov(reg_aux_D, reg_D),
         MImm(reg_b_offset, "int", 0)>>
       \o If(d.with_bias,
             <<MPop(reg_bias, "reg_bias_offs_"),
               MPush("reg_aux_bias_offs_", reg_bias)>>)
       \o If(d.req_s8s8_compensation,
             <<MPop(reg_compensation, "reg_buf_offs_"),
               MPush("reg_aux_comp_offs_", reg_compensation)>>)
       \o If(d.with_scales,
             <<MPop(reg_scales, "reg_scales_offs_"),
               MPush("reg_aux_scales_offs_", reg_scales)>>)
       \o If(d.zp_type_a # "none",
             <<MPop(reg_zp_comp_a, "reg_zp_comp_a_offs_"),
               MPush("reg_aux_zp_comp_a_offs_", reg_zp_comp_a)>>)
       \o If(d.zp_type_c # "none",
             <<MPop(reg_zp_c_values, "reg_zp_c_values_offs_"),
               MPush("reg_aux_zp_c_values_offs_", reg_zp_c_values)>>))

ldb_regs_shift_po(d, ld_block2, is_tail) ==
    <<MAdd(reg_aux_C, ldb_C_offset(d, ld_block2, is_tail)),
      MAdd(reg_aux_D, ldb_D_offset(d, ld_block2, is_tail)),
      MAdd(reg_b_offset, ldb_B_offset(d, ld_block2, is_tail))>>
    \o If(d.with_bias,
          shift_slot(reg_aux_bias, "reg_aux_bias_offs_",
                     bias_offset(d, ld_block2, is_tail)))
    \o If(d.req_s8s8_compensation,
          shift_slot(reg_aux_compensation, "reg_aux_comp_offs_",
                     compensations_offset(d, ld_block2, is_tail)))
    \o If(d.with_scales,
          shift_slot(reg_aux_scales, "reg_aux_scales_offs_",
                     scales_offset(d, ld_block2, is_tail)))
    \o If(d.zp_type_a # "none",
          shift_slot(reg_aux_zp_comp_a, "reg_aux_zp_comp_a_offs_",
                     zp_comp_a_offset(d, ld_block2, is_tail)))
    \o If(d.zp_type_c = "per_n",
          shift_slot(reg_aux_zp_c_values, "reg_aux_zp_c_values_offs_",
                     zp_c_values_offset(d, ld_block2, is_tail)))

advance_ldb_post_op_regs(d) ==
    If(d.with_bias,
       shift_slot(reg_aux_bias, "reg_aux_bias_offs_", bias_offset(d, 1, FALSE)))
    \o If(d.with_scales,
          shift_slot(reg_aux_scales, "reg_aux_scales_offs_",
                     scales_offset(d, 1, FALSE)))
    \o If(d.zp_type_a # "none",
          shift_slot(reg_aux_zp_comp_a, "reg_aux_zp_comp_a_offs_",
                     zp_comp_a_offset(d, 1, FALSE)))
    \o If(d.zp_type_c = "per_n",
          shift_slot(reg_aux_zp_c_values, "reg_aux_zp_c_values_offs_",
                     zp_c_values_offset(d, 1, FALSE)))

restore_ldb_post_op_regs(d, ld_block2) ==
    If(d.with_bias,
       shift_slot(reg_aux_bias, "reg_aux_bias_offs_",
                  0 - bias_offset(d, ld_block2 - 1, FALSE)))
    \o If(d.with_scales,
          shift_slot(reg_aux_scales, "reg_aux_scales_offs_",
                     0 - scales_offset(d, ld_block2 - 1, FALSE)))
    \o If(d.zp_type_a # "none",
          shift_slot(reg_aux_zp_comp_a, "reg_aux_zp_comp_a_offs_",
                     0 - zp_comp_a_offset(d, ld_block2 - 1, FALSE)))
    \o If(d.zp_type_c = "per_n",
          shift_slot(reg_aux_zp_c_values, "reg_aux_zp_c_values_offs_",
                     0 - zp_c_values_offset(d, ld_block2 - 1, FALSE)))

\* ldb_loop from ldb_loop_label to the end of the batch loop: the saves of
\* reg_D and reg_aux_D, and the registers the batch loop and the
\* microkernel use for other roles
ldb_loop_body_po(d) ==
    (IF is_ldb_loop_(d) THEN <<MPush("reg_D_offs_", reg_D)>>
     ELSE <<MMov(reg_ldb_loop, reg_D)>>
          \o If(d.is_tmm, <<MPush("reg_ldb_loop_offs_", reg_ldb_loop)>>))
    \o If(d.max_bs > 1, <<MPush("reg_aux_D_offs_", reg_aux_D)>>)
    \o <<MMov(reg_aux1_A, reg_A), MMov(reg_aux1_B, reg_B)>>
    \o If(d.is_tmm,
          <<MImm(reg_stride_lda, "int", d.typesize_A * d.LDA),
            MImm(reg_stride_ldb, "int", d.rd_step * d.typesize_B * d.LDB)>>)
    \o If(d.req_s8s8_compensation,
          <<MPush("reg_bdb_loop_offs_", reg_bdb_loop),
            MImm(reg_s8_input_shift, "int", 128),
            MPop(reg_bdb_loop, "reg_bdb_loop_offs_")>>)
    \o If(d.max_bs > 1, <<MMov(reg_BS_loop, reg_BS)>>)
    \o <<MMov(reg_aux_A, reg_aux1_A), MMov(reg_aux_B, reg_aux1_B),
         MImm(reg_rdb_loop, "int", 0)>>
    \o If(d.max_bs > 1, <<MImm(reg_BS_loop, "int", 0)>>)
    \o (IF is_ldb_loop_(d) THEN <<MPop(reg_D, "reg_D_offs_")>>
        ELSE If(d.is_tmm, <<MPop(reg_ldb_loop, "reg_ldb_loop_offs_")>>)
             \o <<MMov(reg_D, reg_ldb_loop)>>)
    \o If(d.max_bs > 1, <<MPop(reg_aux_D, "reg_aux_D_offs_")>>)

\* store_accumulators_apply_post_ops: the pointers it loads
apply_post_ops_po(d) ==
    If(d.with_scales, <<MPop(reg_aux_scales, "reg_aux_scales_offs_")>>)
    \o If(d.with_bias, <<MPop(reg_aux_bias, "reg_aux_bias_offs_")>>)
    \o If(d.zp_type_c # "none",
          <<MPop(reg_aux_zp_c_values, "reg_aux_zp_c_values_offs_")>>)

apply_compensation_po(d) ==
    If(d.zp_type_a # "none",
       <<MPop(reg_aux_zp_comp_a, "reg_aux_zp_comp_a_offs_")>>)
    \o If(d.req_s8s8_compensation,
          <<MPop(reg_aux_compensation, "reg_aux_comp_offs_")>>)

store_accumulators_amx_po(d, ld_block2, apply_post_ops) ==
    <<MPush("reg_aux_C_bdb_loop_backup_offs_", reg_aux_C)>>
    \o If(apply_post_ops,
          <<MPush("reg_aux_D_bdb_loop_backup_offs_", reg_aux_D)>>)
    \o <<MPop(reg_buf, "reg_buf_offs_")>>
    \o For(ld_block2, LAMBDA ldb :
           If(apply_post_ops,
              apply_compensation_po(d) \o apply_post_ops_po(d)
              \o If(ldb < ld_block2 - 1,
                    advance_ldb_post_op_regs(d)
                    \o <<MAdd(reg_aux_D, ldb_D_offset(d, 1, FALSE))>>))
           \o <<MPop(reg_buf, "reg_buf_offs_")>>
           \o If(ldb < ld_block2 - 1,
                 <<MAdd(reg_aux_C, ldb_C_offset(d, 1, FALSE))>>))
    \o If(ld_block2 > 1,
          <<MAdd(reg_aux_C, 0 - ldb_C_offset(d, ld_block2 - 1, FALSE))>>)
    \o If(apply_post_ops /\ ld_block2 > 1,
          <<MAdd(reg_aux_D, 0 - ldb_D_offset(d, ld_block2 - 1, FALSE))>>
          \o restore_ldb_post_op_regs(d, ld_block2)
          \o <<MPop(reg_buf, "reg_buf_offs_")>>)
    \o <<MPop(reg_aux_C, "reg_aux_C_bdb_loop_backup_offs_")>>
    \o If(apply_post_ops,
          <<MPop(reg_aux_D, "reg_aux_D_bdb_loop_backup_offs_")>>)

store_accumulators_po(d, ld_block2, do_post_ops) ==
    <<MPop(reg_do_post_ops, "reg_do_post_ops_offs_")>>
    \o (IF d.is_tmm
        THEN store_accumulators_amx_po(d, ld_block2, do_post_ops)
        ELSE If(do_post_ops, apply_compensation_po(d) \o apply_post_ops_po(d)))

\* the end of an iteration of the ldb loop
ldb_loop_tail_po(d, ld_block2, is_ld_tail) ==
    If(is_ldb_loop_(d),
       If(d.is_tmm, <<MPop(reg_ldb_loop, "reg_ldb_loop_offs_")>>)
       \o (IF ~is_ld_tail THEN ldb_regs_shift_po(d, ld_block2, FALSE)
           ELSE ldb_regs_shift_po(d, 1, TRUE))
       \o <<MAdd(reg_ldb_loop, -1)>>
       \o If(d.is_tmm, <<MPush("reg_ldb_loop_offs_", reg_ldb_loop)>>))

PostOpConfigs ==
    {[with_bias |-> wb, with_scales |-> sc[1], is_oc_scale |-> sc[2],
      req_s8s8_compensation |-> s8, zp_type_a |-> za, zp_type_c |-> zc] :
        wb \in BOOLEAN, sc \in PerColumn, s8 \in BOOLEAN,
        za \in {"none", "per_tensor"}, zc \in {"none", "per_tensor", "per_n"}}

LdbDescs ==
    {Merge(po, [is_tmm |-> tmm, max_bs |-> mbs, ld_block |-> 2,
                ld_block2 |-> s.ld_block2, ldb2 |-> s.ldb2,
                ldb2_tail |-> s.ldb2_tail, ldb_tail |-> s.ldb_tail,
                bd_block |-> 1, bdb |-> 2,
                typesize_A |-> IF tmm THEN 1 ELSE 4,
                typesize_B |-> IF tmm THEN 1 ELSE 4,
                typesize_C |-> 4, typesize_D |-> IF tmm THEN 1 ELSE 4,
                typesize_bias |-> 4, dt_b |-> IF tmm THEN "s8" ELSE "f32",
                rd_step |-> IF tmm THEN 4 ELSE 1,
                ld_step |-> IF tmm THEN 4 ELSE 1,
                LDA |-> 4,
                LDB |-> (s.ldb2 * s.ld_block2 + s.ldb2_tail) * 2 + s.ldb_tail,
                LDC |-> (s.ldb2 * s.ld_block2 + s.ldb2_tail) * 2 + s.ldb_tail,
                LDD |-> (s.ldb2 * s.ld_block2 + s.ldb2_tail) * 2 + s.ldb_tail]) :
        po \in PostOpConfigs, tmm \in BOOLEAN, mbs \in 1..2,
        s \in {s \in [ld_block2 : BlockSizes, ldb2 : 0..MaxLdb2,
                      ldb2_tail : 0..1, ldb_tail : 0..1] :
                  /\ s.ldb2_tail < s.ld_block2
                  /\ s.ldb2 + s.ldb2_tail + s.ldb_tail >= 1}}

LdbParams(do_post_ops) ==
    [ptr_A |-> Ptr("A", 0), ptr_B |-> Ptr("B", 0), ptr_C |-> Ptr("C", 0),
     ptr_D |-> Ptr("D", 0), BS |-> Imm(1), ptr_buf |-> Ptr("buf", 0),
     ptr_bias |-> Ptr("bias", 0), ptr_scales |-> Ptr("scales", 0),
     a_zp_compensations |-> Ptr("zp_comp_a", 0),
     c_zp_values |-> Ptr("zp_c", 0),
     do_post_ops |-> Imm(IF do_post_ops THEN 1 ELSE 0)]

InitLdb ==
    /\ brg \in LdbDescs
    /\ rt \in [do_post_ops : BOOLEAN]
    /\ pc = "read_params"
    /\ ph = 0
    /\ rg = 1
    /\ gpr = [r \in Regs |-> Undef]
    /\ stack = <<>>
    /\ acc = 0
    /\ memC = <<>>
    /\ dup = FALSE
    /\ code = do_ldb_loop(brg)
    /\ trace = <<>>

\* the instructions prog run on the registers and the frame
ldb_run(prog, next) ==
    /\ \E m \in {MExec(1, [g |-> gpr, s |-> stack, log |-> {}], prog, 1,
                       Len(prog), LdbParams(rt.do_post_ops))} :
          /\ gpr' = m.g
          /\ stack' = m.s
    /\ pc' = next
    /\ UNCHANGED <<brg, rt, memC, dup, code>>

ldb_read_params ==
    /\ pc = "read_params"
    /\ ldb_run(read_params_po(brg), "ldb_loop")
    /\ UNCHANGED <<ph, rg, acc, trace>>

\* ldb_loop up to ldb_loop_label
ldb_enter_regime ==
    /\ pc = "ldb_loop"
    /\ ldb_run(copy_post_ops_po(brg, code[rg].is_reg_tail)
                   \o If(is_ldb_loop_(brg),
                         <<MImm(reg_ldb_loop, "int", code[rg].ldb_loop_length)>>
                         \o If(brg.is_tmm,
                               <<MPush("reg_ldb_loop_offs_", reg_ldb_loop)>>)),
               "ldb_loop_label")
    /\ UNCHANGED <<ph, rg, acc, trace>>

ldb_BS_loop ==
    /\ pc = "ldb_loop_label"
    /\ ldb_run(ldb_loop_body_po(brg), "store_accumulators")
    /\ UNCHANGED <<ph, rg, acc, trace>>

\* store_accumulators: the block is stored where reg_aux_C points
ldb_store_accumulators ==
    /\ pc = "store_accumulators"
    /\ ldb_run(store_accumulators_po(brg, code[rg].ld_block2,
                   rt.do_post_ops),
               "ldb_regs_shift")
    /\ \E cols \in {IF code[rg].is_ld_tail THEN brg.ldb_tail
                    ELSE code[rg].ld_block2 * brg.ld_block} :
          /\ trace' = Append(trace, [bd |-> ph, C |-> gpr[reg_aux_C],
                                     cols |-> cols])
          /\ acc' = acc + cols
    /\ UNCHANGED <<ph, rg>>

\* ldb_regs_shift, dec(reg_ldb_loop), jg(ldb_loop_label)
ldb_loop_end ==
    /\ pc = "ldb_regs_shift"
    /\ \E m \in {MExec(1, [g |-> gpr, s |-> stack, log |-> {}],
                       ldb_loop_tail_po(brg, code[rg].ld_block2,
                                        code[rg].is_ld_tail),
                       1, Len(ldb_loop_tail_po(brg, code[rg].ld_block2,
                                               code[rg].is_ld_tail)),
                       LdbParams(rt.do_post_ops))} :
          /\ gpr' = m.g
          /\ stack' = m.s
          /\ IF is_ldb_loop_(brg) /\ m.g[reg_ldb_loop].seg = "int"
                /\ m.g[reg_ldb_loop].off > 0
             THEN pc' = "ldb_loop_label" /\ rg' = rg
             ELSE /\ pc' = IF rg < Len(code) THEN "ldb_loop" ELSE "bdb_end"
                  /\ rg' = IF rg < Len(code) THEN rg + 1 ELSE rg
    /\ UNCHANGED <<brg, rt, ph, acc, memC, dup, code, trace>>

\* bdb_loop_body after do_ldb_loop: the next row block
ldb_next_row_block ==
    /\ pc = "bdb_end"
    /\ ph < brg.bdb - 1
    /\ ldb_run(<<MAdd(reg_C, bdb_C_offset(brg, 1)),
                 MAdd(reg_D, bdb_D_offset(brg, 1))>>, "ldb_loop")
    /\ ph' = ph + 1
    /\ rg' = 1
    /\ acc' = 0
    /\ trace' = trace

NextLdb ==
    \/ ldb_read_params
    \/ ldb_enter_regime
    \/ ldb_BS_loop
    \/ ldb_store_accumulators
    \/ ldb_loop_end
    \/ ldb_next_row_block

SpecLdb == InitLdb /\ [][NextLdb]_vars

load_dim(d) == d.ldb2 * d.ld_block2 * d.ld_block + d.ldb2_tail * d.ld_block + d.ldb_tail

\* the slot holds base + n
SlotIs(slot, base, n) == slot \in DOMAIN stack /\ stack[slot] = Ptr(base, n)

\* C19: at the start of every regime and iteration the pointers are their
\* base plus the bytes of the columns already processed in the row block;
\* the iterations store adjacent column ranges in order from column 0, and
\* a finished row block has stored exactly the load_dim columns.
C19_RegimesTileColumns ==
    /\ pc = "ldb_loop_label" =>
          /\ gpr[reg_aux_C]
                = Ptr("C", ph * bdb_C_offset(brg, 1) + brg.typesize_C * acc)
          /\ gpr[reg_aux_D]
                = Ptr("D", ph * bdb_D_offset(brg, 1) + brg.typesize_D * acc)
          /\ gpr[reg_b_offset]
                = Imm(brg.typesize_B * brg.ld_step * acc)
          /\ brg.with_bias
                => SlotIs("reg_aux_bias_offs_", "bias", brg.typesize_bias * acc)
          /\ brg.with_scales
                => SlotIs("reg_aux_scales_offs_", "scales",
                          brg.is_oc_scale * 4 * acc)
          /\ brg.req_s8s8_compensation
                => SlotIs("reg_aux_comp_offs_", "buf", 4 * acc)
          /\ brg.zp_type_a # "none"
                => SlotIs("reg_aux_zp_comp_a_offs_", "zp_comp_a", 4 * acc)
          /\ brg.zp_type_c = "per_n"
                => SlotIs("reg_aux_zp_c_values_offs_", "zp_c", 4 * acc)
    /\ \A i \in DOMAIN trace :
          /\ trace[i].C.seg = "C"
          /\ trace[i].C.off
                = trace[i].bd * bdb_C_offset(brg, 1)
                  + brg.typesize_C
                    * (IF i > 1 /\ trace[i - 1].bd = trace[i].bd
                       THEN (trace[i - 1].C.off
                             - trace[i].bd * bdb_C_offset(brg, 1))
                                \div brg.typesize_C + trace[i - 1].cols
                       ELSE 0)
    /\ pc = "bdb_end" => acc = load_dim(brg)

C19_Witness ==
    /\ pc = "ldb_loop_label" /\ rg = 3 /\ ph = 1
    /\ brg.is_tmm /\ rt.do_post_ops /\ brg.ld_block2 = 2 /\ brg.ldb2 = 2
    /\ brg.with_bias /\ brg.zp_type_c = "per_n" /\ brg.req_s8s8_compensation
    /\ acc = 10

\* C20: with a uniform weight scale, respectively a uniform weight
\* zero-point (stride 0), every read of the scales, respectively of the
\* zero-points, is the broadcast of the one value at the pointer.
C20_UniformValueBroadcast ==
    \A i \in DOMAIN trace :
        /\ (brg.with_wei_decomp_scales /\ brg.wei_decomp_scales_stride = 0
               /\ trace[i].mem = "wei_scales") => trace[i].lanes = 1
        /\ (brg.with_wei_decomp_zero_points
               /\ brg.wei_decomp_zero_points_stride = 0
               /\ trace[i].mem = "wei_zp") => trace[i].lanes = 1

\* C21: for strided batch addressing with virtual padding, the no-padding
\* path of bdb_loop is taken if and only if the batch pointer of the call
\* is null.
C21_NoVpadPathIffBatchNull ==
    (brg.type = "strd" /\ vpad_exist(brg) /\ code.path # "none")
        => (code.path = "novpad" <=> rt.batch_null)

\* --------------------------------------------------------------------
\* The value type of an accumulator along the store pipeline.
\* --------------------------------------------------------------------
\* apply_alpha_beta: the instruction that accumulates the previous value of
\* C on an accumulator, on the mask path (full block, or tail with opmask
\* registers) and on the vmaskmovps path (tail without opmask registers).
beta_instruction(d, is_tail, has_masks) ==
    LET apply_alpha == d.alpha # 1
        dq2ps_required == d.is_int8 /\ (apply_alpha \/ d.beta # 1)
                          /\ ~d.with_src_dyn_quant
        use_vadd_for_beta == d.beta = 1 /\ ~dq2ps_required
    IN  IF use_vadd_for_beta
        THEN IF IMPLICATION(is_tail, has_masks)
             THEN IF d.is_int8 /\ ~d.with_src_dyn_quant
                  THEN "vpaddd" ELSE "vaddps"
             ELSE IF d.is_int8 THEN "vpaddd" ELSE "vaddps"
        ELSE IF d.beta = 1 THEN "vaddps" ELSE "vfmadd231ps"

\* The accumulators of an int8 kernel hold s32 dot products; the dynamic
\* quantization microkernel folds them into f32 accumulators.
accumulated_type(d) ==
    IF d.is_int8 /\ ~d.with_src_dyn_quant THEN "s32" ELSE "f32"

\* The type of the accumulator when instruction i of ops is executed on it.
TypeAt(d, ops, i) ==
    IF \E j \in DOMAIN ops : j < i /\ ops[j].op = "cvtdq2ps"
    THEN "f32" ELSE accumulated_type(d)

FloatInstructions == {"alpha", "scale", "bias", "post_ops", "dst_scale"}

\* C22: an accumulator is converted from s32 to f32 at most once, a
\* floating-point instruction finds it f32 and an integer instruction s32,
\* and the store without post-ops converts it back to an integer exactly
\* when it had been converted.
C22_AccumulatorTypeConsistent ==
    \A c \in CellsOf(trace) :
        LET ops == OpsOf(trace, c)
            W == {i \in DOMAIN ops : ops[i].op = "cvtdq2ps"}
        IN  /\ Cardinality(W) <= 1
            /\ \A i \in DOMAIN ops :
                  /\ ops[i].op = "cvtdq2ps" => TypeAt(brg, ops, i) = "s32"
                  /\ ops[i].op \in FloatInstructions
                        => TypeAt(brg, ops, i) = "f32"
                  /\ ops[i].op \in CompensationInStore \cup CompensationInMicrokernel
                        => TypeAt(brg, ops, i) = "s32"
                  /\ ops[i].op = "beta"
                        => \A is_tail, has_masks \in BOOLEAN :
                              beta_instruction(brg, is_tail, has_masks) = "vpaddd"
                                  <=> TypeAt(brg, ops, i) = "s32"
            /\ (\E i \in DOMAIN ops : ops[i].op = "store_C")
                  => ((\E i \in DOMAIN ops : ops[i].op = "saturate") <=> W # {})

\* --------------------------------------------------------------------
\* The loop counters across the bodies of their loops.
\* --------------------------------------------------------------------
\* Where the bd counter, respectively the leading-dim counter, is read from
\* at the decrement: in tile mode the stack slot the register is reloaded
\* from, in vector mode the register.
bdb_counter == IF brg.is_tmm THEN stack.bdb ELSE gpr.r9

ldb_counter == IF brg.is_tmm THEN stack.ldb ELSE gpr.r8

\* The program points inside the body of the bd loop, of the leading-dim
\* loop and of the batch loop (the decrement excluded).
bdb_loop_body_points ==
    {"do_ldb_loop", "ldb_loop_label", "BS_loop_label", "rdb_loop_label",
     "BS_loop_end", "store_accumulators"}

ldb_loop_body_points ==
    {"ldb_loop_label", "BS_loop_label", "rdb_loop_label", "BS_loop_end"}

BS_loop_body_points == {"BS_loop_label", "rdb_loop_label"}

\* C23: the counter of a run-time loop has at its decrement the value it had
\* at the start of the body: no step inside the body of the bd loop, of the
\* leading-dim loop or of the batch loop leaves the counter with another
\* value.
C23_CountersPreserved ==
    [][/\ (pc \in bdb_loop_body_points /\ code[ph].looped)
          => bdb_counter' = bdb_counter
       /\ (pc \in ldb_loop_body_points /\ is_ldb_loop_(brg))
          => ldb_counter' = ldb_counter
       /\ (pc \in BS_loop_body_points /\ brg.max_bs > 1)
          => gpr'.rax = gpr.rax]_vars

\* --------------------------------------------------------------------
\* The selection of the broadcast-once strategy and the registers of the
\* bodies emitted under it.  code is the strategy bdb_loop selected, rg the
\* leading-dim regime whose body is emitted next, trace the registers each
\* emitted body names: bcst(bd) for its rows, accm(ld_block2, bd, ld) for its
\* cells.
\* --------------------------------------------------------------------
\* The column-block counts of a descriptor: <<ldb2, ldb2_tail, ldb_tail>>.
LdbShapes == {<<1, 0, 0>>, <<2, 1, 1>>, <<0, 1, 0>>, <<0, 2, 1>>, <<0, 0, 1>>}

LoopOrderHints ==
    {"brgemm_lo_default", "brgemm_lo_bl_1load", "brgemm_lo_bl_1bcst"}

BcastDescs ==
    {Merge(MicrokernelDesc(isa, bd_block, ld_block2, q),
           [ldb2 |-> s[1], ldb2_tail |-> s[2], ldb_tail |-> s[3],
            hint_loop_order |-> h]) :
        isa \in {"avx2", "avx512_core"}, bd_block \in 1..MaxBdBlock,
        ld_block2 \in 1..MaxLdBlock2, q \in MicrokernelConfigs,
        s \in LdbShapes, h \in LoopOrderHints}

InitBcast ==
    /\ brg \in {d \in BcastDescs : d.ldb2_tail < d.ld_block2}
    /\ rt = <<>>
    /\ pc = "bdb_loop"
    /\ ph = 0
    /\ rg = 1
    /\ gpr = <<>>
    /\ stack = <<>>
    /\ acc = <<>>
    /\ memC = <<>>
    /\ dup = FALSE
    /\ code = [n_bcast_1_load |-> FALSE]
    /\ trace = <<>>

\* bdb_loop up to the first do_ldb_loop: the strategy is selected.
bcast_bdb_loop ==
    /\ pc = "bdb_loop"
    /\ code' = [n_bcast_1_load |-> n_bcast_1_load(brg)]
    /\ pc' = "do_ldb_loop"
    /\ UNCHANGED <<brg, rt, ph, rg, gpr, stack, acc, memC, dup, trace>>

\* The registers gemm_microkernel names in the body of one regime.
microkernel_registers(d, ld_block2) ==
    [ld_block2 |-> ld_block2,
     bcst |-> {bcst(d, bd) : bd \in 0..(d.bd_block - 1)},
     load |-> {load(d, ld) : ld \in 0..(ld_block2 - 1)},
     accm |-> {accm(d, ld_block2, bd, ld) :
                  bd \in 0..(d.bd_block - 1), ld \in 0..(ld_block2 - 1)}]

\* do_ldb_loop: the body of regime rg is emitted.
bcast_ldb_loop ==
    /\ pc = "do_ldb_loop"
    /\ rg <= Len(do_ldb_loop(brg))
    /\ trace' = Append(trace,
                       microkernel_registers(brg, do_ldb_loop(brg)[rg].ld_block2))
    /\ rg' = rg + 1
    /\ pc' = IF rg = Len(do_ldb_loop(brg)) THEN "done" ELSE "do_ldb_loop"
    /\ UNCHANGED <<brg, rt, ph, gpr, stack, acc, memC, dup, code>>

NextBcast ==
    \/ bcast_bdb_loop
    \/ bcast_ldb_loop

SpecBcast == InitBcast /\ [][NextBcast]_vars

\* C24: when the broadcast-once strategy is selected automatically, in every
\* emitted regime every bcst(bd) has an index above 0 and below every
\* accumulator index.
C24_BcstBelowAccumulators ==
    (code.n_bcast_1_load /\ brg.hint_loop_order = "brgemm_lo_default")
        => \A i \in DOMAIN trace :
              \A b \in trace[i].bcst :
                  /\ b > 0
                  /\ \A a \in trace[i].accm : b < a

\* --------------------------------------------------------------------
\* bdb_loop_amx: the row-block loop of tile mode.  gpr.r9 is reg_bdb_loop,
\* stack.bdb the slot reg_bdb_loop_offs_, trace the bodies executed so far,
\* each [bd_block2, is_bdb_tail].
\* --------------------------------------------------------------------
MaxBdb2 == 3
MaxBodies == 6

AmxDescs ==
    {[is_tmm |-> TRUE, bd_block2 |-> b2, bdb2 |-> n, bdb2_tail |-> t,
      bdb_tail |-> bt, alpha |-> al, req_s8s8_compensation |-> FALSE,
      zp_type_a |-> IF zpa THEN "per_tensor" ELSE "none",
      req_cal_comp_pads |-> zpa, max_top_vpad |-> 0, max_bottom_vpad |-> 0,
      typesize_A |-> 1, LDA |-> lda] :
        b2 \in 1..2, n \in 0..MaxBdb2, t \in 0..1, bt \in 0..1, al \in 0..1,
        zpa \in BOOLEAN, lda \in 1..MaxStride}

InitAmx ==
    /\ brg \in {d \in AmxDescs : d.bdb2_tail < d.bd_block2}
    /\ rt \in [skip_accm : BOOLEAN]
    /\ pc = "bdb_loop"
    /\ ph = 0
    /\ rg = 0
    /\ gpr = [r9 |-> 0]
    /\ stack = [bdb |-> 0]
    /\ acc = <<>>
    /\ memC = <<>>
    /\ dup = FALSE
    /\ code = <<>>
    /\ trace = <<>>

AmxUnchanged == UNCHANGED <<brg, rt, ph, rg, acc, memC, dup, code>>

\* What ldb_loop, called by do_ldb_loop, leaves in reg_bdb_loop and in its
\* slot: the A stride is moved into reg_stride_lda, and the set-up of the
\* compensation saves reg_bdb_loop to the slot around its scratch use.
amx_do_ldb_loop(g, s) ==
    IF brg.alpha # 0 /\ ~rt.skip_accm
    THEN LET g1 == [g EXCEPT !.r9 = brg.typesize_A * brg.LDA]
             saved == \/ brg.req_s8s8_compensation
                      \/ need_comp_pads(brg) /\ brg.zp_type_a # "none"
         IN  [gpr |-> g1, stack |-> IF saved THEN [s EXCEPT !.bdb = g1.r9] ELSE s]
    ELSE [gpr |-> g, stack |-> s]

\* mov(reg_bdb_loop, brg.bdb2) and its copy to the slot
amx_bdb_loop ==
    /\ pc = "bdb_loop"
    /\ IF brg.bd_block2 >= 1
       THEN /\ gpr' = [gpr EXCEPT !.r9 = brg.bdb2]
            /\ stack' = [stack EXCEPT !.bdb = brg.bdb2]
            /\ pc' = "bdb_loop_label"
       ELSE /\ pc' = "bdb2_tail"
            /\ UNCHANGED <<gpr, stack>>
    /\ UNCHANGED trace
    /\ AmxUnchanged

\* bdb_loop_label: the body of bd_block2 row blocks, then the counter is
\* reloaded from the slot, decremented, stored and tested.
amx_bdb_loop_body ==
    /\ pc = "bdb_loop_label"
    /\ Len(trace) < MaxBodies
    /\ \E m \in {amx_do_ldb_loop(gpr, stack)} :
       \E n \in {m.stack.bdb - 1} :
          /\ gpr' = [m.gpr EXCEPT !.r9 = n]
          /\ stack' = [m.stack EXCEPT !.bdb = n]
          /\ pc' = IF n > 0 THEN "bdb_loop_label" ELSE "bdb2_tail"
    /\ trace' = Append(trace, [bd_block2 |-> brg.bd_block2, is_bdb_tail |-> FALSE])
    /\ AmxUnchanged

\* the body of the last bdb2_tail row blocks
amx_bdb2_tail ==
    /\ pc = "bdb2_tail"
    /\ \E m \in {IF brg.bdb2_tail > 0 THEN amx_do_ldb_loop(gpr, stack)
                 ELSE [gpr |-> gpr, stack |-> stack]} :
          gpr' = m.gpr /\ stack' = m.stack
    /\ trace' = IF brg.bdb2_tail > 0
                THEN Append(trace, [bd_block2 |-> brg.bdb2_tail,
                                    is_bdb_tail |-> FALSE])
                ELSE trace
    /\ pc' = "bdb_tail"
    /\ AmxUnchanged

\* the body of the row tail
amx_bdb_tail ==
    /\ pc = "bdb_tail"
    /\ \E m \in {IF brg.bdb_tail > 0 THEN amx_do_ldb_loop(gpr, stack)
                 ELSE [gpr |-> gpr, stack |-> stack]} :
          gpr' = m.gpr /\ stack' = m.stack
    /\ trace' = IF brg.bdb_tail > 0
                THEN Append(trace, [bd_block2 |-> 1, is_bdb_tail |-> TRUE])
                ELSE trace
    /\ pc' = "postamble"
    /\ AmxUnchanged

NextAmx ==
    \/ amx_bdb_loop
    \/ amx_bdb_loop_body
    \/ amx_bdb2_tail
    \/ amx_bdb_tail

SpecAmx == InitAmx /\ [][NextAmx]_vars

\* The bodies the descriptor contains: bdb2 groups of bd_block2 row blocks,
\* the group of bdb2_tail row blocks, the row tail.
descriptor_bodies(d) ==
    [i \in 1..d.bdb2 |-> [bd_block2 |-> d.bd_block2, is_bdb_tail |-> FALSE]]
    \o (IF d.bdb2_tail > 0
        THEN <<[bd_block2 |-> d.bdb2_tail, is_bdb_tail |-> FALSE]>> ELSE <<>>)
    \o (IF d.bdb_tail > 0
        THEN <<[bd_block2 |-> 1, is_bdb_tail |-> TRUE]>> ELSE <<>>)

\* C25: in tile mode the body of bd_block2 row blocks is executed bdb2
\* times, then the body of bdb2_tail blocks once if bdb2_tail > 0, then the
\* row-tail body once if bdb_tail > 0, and no other body is executed.
C25_BodiesOfDescriptor ==
    /\ Len(trace) <= Len(descriptor_bodies(brg))
    /\ \A i \in DOMAIN trace : trace[i] = descriptor_bodies(brg)[i]
    /\ pc = "postamble" => trace = descriptor_bodies(brg)

\* ======================================================================
\* Grouped weight decompression: the input-channel counter and the
\* per-group scale / zero-point / source-scale pointers of ldb_loop.
\* Pointers are byte addresses; stack slots hold integers.
\* ======================================================================
GroupSizes == {2, 4}
GroupStrides == {0, 8}

GroupDescs ==
    [ld_block : {2}, ld_block2 : 1..2, ldb2 : 1..MaxLdb2, ldb2_tail : {0},
     ldb_tail : 0..1, rdb : 1..MaxRd, rd_block : {2}, max_bs : 1..MaxBS,
     with_grouped_wei_decomp : {TRUE},
     with_wei_decomp : {TRUE}, with_wei_decomp_scales : {TRUE},
     wei_decomp_scales_stride : GroupStrides,
     wei_decomp_scales_group_size : GroupSizes,
     with_wei_decomp_zero_points : BOOLEAN,
     wei_decomp_zero_points_stride : GroupStrides,
     wei_decomp_zero_points_group_size : {2},
     zp_dt_size : {1, 4},
     with_src_dyn_quant : BOOLEAN, src_scales_group_size : {4}]

GroupParams(d) ==
    [ic : {0, 2, 6}, BS : 1..d.max_bs,
     ptr_wei_scales : {0, 64}, ptr_wei_zero_points : {0}, ptr_src_scales : {0}]

grouped_shift(d) ==
    d.with_grouped_wei_decomp
    /\ (d.wei_decomp_scales_stride # 0 \/ d.wei_decomp_zero_points_stride # 0)

wei_scales_offset(d, ld, is_tail) ==
    IF is_tail THEN 4 * d.ldb_tail ELSE 4 * ld * d.ld_block

wei_zp_offset(d, ld, is_tail) ==
    IF is_tail THEN d.zp_dt_size * d.ldb_tail ELSE d.zp_dt_size * ld * d.ld_block

\* mov(reg_local_ic, [aux_ic]); idiv(group_size); imul(stride);
\* mov(reg_local_wei_params, [src]); add; mov([dst], reg_local_wei_params)
ic_group_shift(s, src_offs, dst_offs, group_size, stride) ==
    [s EXCEPT ![dst_offs] = s[src_offs] + ((s.reg_aux_ic \div group_size) * stride)]

copy_post_ops_wei_values_to_aux(s, d, is_reg_tail) ==
    LET s1 == IF ~is_reg_tail /\ d.with_wei_decomp_scales
              THEN [s EXCEPT !.reg_aux_wei_scales = s.reg_wei_scales,
                             !.reg_aux2_wei_scales = s.reg_wei_scales]
              ELSE s
        s2 == IF ~is_reg_tail /\ d.with_wei_decomp_zero_points
              THEN [s1 EXCEPT !.reg_aux_wei_zero_points = s1.reg_wei_zero_points,
                              !.reg_aux2_wei_zero_points = s1.reg_wei_zero_points]
              ELSE s1
        s3 == IF d.with_grouped_wei_decomp
              THEN [s2 EXCEPT !.reg_aux_ic = s2.reg_ic] ELSE s2
    IN  IF d.with_src_dyn_quant
        THEN [s3 EXCEPT !.reg_aux_src_scales = s3.reg_src_scales,
                        !.reg_aux2_src_scales = s3.reg_src_scales]
        ELSE s3

ldb_regs_shift_wei(s, d, ld_block2, is_tail) ==
    IF d.with_wei_decomp
    THEN LET ws == s.reg_aux_wei_scales + wei_scales_offset(d, ld_block2, is_tail)
             wz == s.reg_aux_wei_zero_points + wei_zp_offset(d, ld_block2, is_tail)
         IN  [s EXCEPT !.reg_aux_wei_scales = ws, !.reg_aux2_wei_scales = ws,
                       !.reg_aux_wei_zero_points = wz,
                       !.reg_aux2_wei_zero_points = wz]
    ELSE s

GroupSlots ==
    {"reg_ic", "reg_aux_ic", "reg_wei_scales", "reg_aux_wei_scales",
     "reg_aux2_wei_scales", "reg_wei_zero_points", "reg_aux_wei_zero_points",
     "reg_aux2_wei_zero_points", "reg_src_scales", "reg_aux_src_scales",
     "reg_aux2_src_scales"}

GroupUnchanged == UNCHANGED <<brg, rt, ph, memC, dup, code>>

InitGroup ==
    /\ brg \in GroupDescs
    /\ rt \in GroupParams(brg)
    /\ pc = "read_params"
    /\ ph = 0
    /\ rg = 1
    /\ gpr = [r8 |-> 0, rax |-> 0, rbx |-> 0]
    /\ stack = [o \in GroupSlots |-> 0]
    /\ acc = [it |-> 0, bs |-> 0, k |-> 0, col |-> 0]
    /\ memC = <<>>
    /\ dup = FALSE
    /\ code = "vmm"
    /\ trace = <<>>

\* read_params: the caller's ic and pointers go to their stack slots
group_read_params ==
    /\ pc = "read_params"
    /\ stack' = [stack EXCEPT !.reg_ic = rt.ic,
                              !.reg_wei_scales = rt.ptr_wei_scales,
                              !.reg_wei_zero_points = rt.ptr_wei_zero_points,
                              !.reg_src_scales = rt.ptr_src_scales]
    /\ pc' = "ldb_loop"
    /\ UNCHANGED <<rg, gpr, acc, trace>>
    /\ GroupUnchanged

\* ldb_loop entry: copy_post_ops_stack_values_to_aux(is_reg_tail), then
\* mov(reg_ldb_loop, ldb_loop_length) when is_ldb_loop_
group_ldb_loop ==
    /\ pc = "ldb_loop"
    /\ LET call == do_ldb_loop(brg)[rg]
       IN  /\ stack' = copy_post_ops_wei_values_to_aux(stack, brg, call.is_reg_tail)
           /\ gpr' = IF is_ldb_loop_(brg)
                     THEN [gpr EXCEPT !.r8 = call.ldb_loop_length] ELSE gpr
    /\ acc' = [acc EXCEPT !.it = 0]
    /\ pc' = "ldb_loop_label"
    /\ UNCHANGED <<rg, trace>>
    /\ GroupUnchanged

\* L(ldb_loop_label): mov(reg_BS_loop, reg_BS)
group_ldb_loop_label ==
    /\ pc = "ldb_loop_label"
    /\ gpr' = [gpr EXCEPT !.rax = rt.BS]
    /\ acc' = [acc EXCEPT !.bs = 1]
    /\ pc' = "BS_loop_label"
    /\ UNCHANGED <<rg, stack, trace>>
    /\ GroupUnchanged

\* L(BS_loop_label): set_A_B_matrices, mov(reg_rdb_loop, brg.rdb)
group_BS_loop_label ==
    /\ pc = "BS_loop_label"
    /\ gpr' = [gpr EXCEPT !.rbx = brg.rdb]
    /\ acc' = [acc EXCEPT !.k = 0]
    /\ pc' = "rdb_loop_label"
    /\ UNCHANGED <<rg, stack, trace>>
    /\ GroupUnchanged

\* one iteration of the rdb loop: the grouped shifts, aux_ic += rd_block,
\* the microkernel (which reads the aux2 pointers), dec(reg_rdb_loop), jg
group_rdb_loop ==
    /\ pc = "rdb_loop_label"
    /\ LET d == brg
           s1 == IF grouped_shift(d) /\ d.with_wei_decomp_scales
                    /\ d.wei_decomp_scales_stride # 0
                 THEN ic_group_shift(stack, "reg_aux_wei_scales", "reg_aux2_wei_scales",
                                     d.wei_decomp_scales_group_size,
                                     d.wei_decomp_scales_stride * 4)
                 ELSE stack
           s2 == IF grouped_shift(d) /\ d.with_wei_decomp_zero_points
                    /\ d.wei_decomp_zero_points_stride # 0
                 THEN ic_group_shift(s1, "reg_aux_wei_zero_points",
                                     "reg_aux2_wei_zero_points",
                                     d.wei_decomp_zero_points_group_size,
                                     d.wei_decomp_zero_points_stride * d.zp_dt_size)
                 ELSE s1
           s3 == IF grouped_shift(d) /\ d.with_src_dyn_quant
                 THEN ic_group_shift(s2, "reg_aux_src_scales", "reg_aux2_src_scales",
                                     d.src_scales_group_size, 4)
                 ELSE s2
           s4 == IF grouped_shift(d)
                 THEN [s3 EXCEPT !.reg_aux_ic = @ + d.rd_block] ELSE s3
       IN  /\ stack' = s4
           /\ trace' = Append(trace,
                  [rg |-> rg, it |-> acc.it, bs |-> acc.bs, k |-> acc.k,
                   col |-> acc.col,
                   wei_scales |-> s4.reg_aux2_wei_scales,
                   wei_zero_points |-> s4.reg_aux2_wei_zero_points,
                   src_scales |-> s4.reg_aux2_src_scales])
    /\ gpr' = [gpr EXCEPT !.rbx = @ - 1]
    /\ acc' = [acc EXCEPT !.k = @ + 1]
    /\ pc' = IF gpr.rbx - 1 > 0 THEN "rdb_loop_label" ELSE "BS_loop_end"
    /\ UNCHANGED rg
    /\ GroupUnchanged

\* dec(reg_BS_loop); cmp(reg_BS_loop, 0); jg(BS_loop_label)
group_BS_loop_end ==
    /\ pc = "BS_loop_end"
    /\ gpr' = [gpr EXCEPT !.rax = @ - 1]
    /\ acc' = [acc EXCEPT !.bs = @ + 1]
    /\ pc' = IF gpr.rax - 1 > 0 THEN "BS_loop_label" ELSE "store_accumulators"
    /\ UNCHANGED <<rg, stack, trace>>
    /\ GroupUnchanged

\* store_accumulators, then under is_ldb_loop_ ldb_regs_shift,
\* dec(reg_ldb_loop), jg(ldb_loop_label); the next ldb_loop call follows
group_ldb_loop_end ==
    /\ pc = "store_accumulators"
    /\ LET call == do_ldb_loop(brg)[rg]
           width == IF call.is_ld_tail THEN brg.ldb_tail
                    ELSE call.ld_block2 * brg.ld_block
           again == is_ldb_loop_(brg) /\ gpr.r8 - 1 > 0
       IN  /\ stack' = IF is_ldb_loop_(brg)
                       THEN ldb_regs_shift_wei(stack, brg,
                                IF call.is_ld_tail THEN 1 ELSE call.ld_block2,
                                call.is_ld_tail)
                       ELSE stack
           /\ gpr' = IF is_ldb_loop_(brg) THEN [gpr EXCEPT !.r8 = @ - 1] ELSE gpr
           /\ acc' = [acc EXCEPT !.col = @ + width, !.it = @ + 1]
           /\ pc' = IF again THEN "ldb_loop_label"
                    ELSE IF rg < Len(do_ldb_loop(brg)) THEN "ldb_loop"
                    ELSE "postamble"
           /\ rg' = IF ~again /\ rg < Len(do_ldb_loop(brg)) THEN rg + 1 ELSE rg
    /\ UNCHANGED trace
    /\ GroupUnchanged

NextGroup ==
    \/ group_read_params
    \/ group_ldb_loop
    \/ group_ldb_loop_label
    \/ group_BS_loop_label
    \/ group_rdb_loop
    \/ group_BS_loop_end
    \/ group_ldb_loop_end

SpecGroup == InitGroup /\ [][NextGroup]_vars

\* the pointer a first-batch-step reduction block k should use:
\* base of the column block + floor((ic + k*rd_block) / group_size) * stride * size
group_pointer(base, col_bytes, k, group_size, stride_bytes) ==
    base + col_bytes + (((rt.ic + (k * brg.rd_block)) \div group_size) * stride_bytes)

\* C26: with grouped weight decompression (a per-group stride != 0), at the
\* start of the reduction pass of every iteration of the leading-dim loop
\* the input-channel counter equals the caller's ic, and in the first batch
\* step reduction block k uses base + floor((ic + k*rd_block)/group) * stride
\* * element size for the scale, zero-point and source-scale pointers.
C26_GroupPointersFromCallerIc ==
    grouped_shift(brg) =>
        /\ (pc = "rdb_loop_label" /\ acc.bs = 1 /\ acc.k = 0)
             => stack.reg_aux_ic = rt.ic
        /\ \A i \in DOMAIN trace :
             LET e == trace[i]
             IN  e.bs = 1 =>
                   /\ brg.wei_decomp_scales_stride # 0 =>
                        e.wei_scales
                          = group_pointer(rt.ptr_wei_scales, 4 * e.col, e.k,
                                brg.wei_decomp_scales_group_size,
                                brg.wei_decomp_scales_stride * 4)
                   /\ (brg.with_wei_decomp_zero_points
                       /\ brg.wei_decomp_zero_points_stride # 0) =>
                        e.wei_zero_points
                          = group_pointer(rt.ptr_wei_zero_points,
                                brg.zp_dt_size * e.col, e.k,
                                brg.wei_decomp_zero_points_group_size,
                                brg.wei_decomp_zero_points_stride * brg.zp_dt_size)
                   /\ brg.with_src_dyn_quant =>
                        e.src_scales
                          = group_pointer(rt.ptr_src_scales, 0, e.k,
                                brg.src_scales_group_size, 4)

\* ======================================================================
\* gemm_microkernel_dyn_quant: the zero-point term of the temporary
\* integer accumulator.  A vector lane is one dword of four bytes; bytes
\* are kept as their codes 0..255 and read as signed where the
\* instruction does.
\* ======================================================================
ActivationValues == {-128, -127, -1, 0, 1, 127}
WeightCodes == {0, 1, 15, 255}
ZeroPointCodes == {0, 1, 8, 255}

int8_code(v) == (v + 256) % 256
as_int8(c) == IF c >= 128 THEN c - 256 ELSE c

RECURSIVE xor_bits(_, _, _)
xor_bits(x, y, n) ==
    IF n = 0 THEN 0
    ELSE ((x + y) % 2) + (2 * xor_bits(x \div 2, y \div 2, n - 1))

\* static const int8_t negative_one[64] = {-1, ...}
negative_one == [i \in 1..4 |-> int8_code(-1)]

uni_vpxor(x, y) == [i \in 1..4 |-> xor_bits(x[i], y[i], 8)]
uni_vpsubb(x, y) == [i \in 1..4 |-> (x[i] - y[i] + 256) % 256]

\* vpdpbusd(dst, u, s): dst += sum of unsigned byte * signed byte, no
\* saturation; the two products of a pass are below 2^18 in magnitude, so
\* the 32-bit lane does not wrap here
vpdpbusd(dst, u, s) ==
    dst + (u[1] * as_int8(s[1])) + (u[2] * as_int8(s[2]))
        + (u[3] * as_int8(s[3])) + (u[4] * as_int8(s[4]))

DynQuantUnchanged == UNCHANGED <<brg, rt, ph, rg, gpr, stack, memC, dup, code>>

InitDynQuant ==
    /\ brg = [with_src_dyn_quant |-> TRUE, with_wei_decomp_zero_points |-> TRUE,
              wei_decomp_zero_points_stride |-> 0]
    /\ rt \in [a : ActivationValues, a1 : {0, 5}, w : WeightCodes,
               z : ZeroPointCodes]
    /\ pc = "zero_point"
    /\ ph = 0
    /\ rg = 0
    /\ gpr = <<>>
    /\ stack = <<>>
    /\ acc = [vmm_accm_tmp |-> 0, load |-> <<0, 0, 0, 0>>, bcst |-> <<0, 0, 0, 0>>,
              vmm_zero_point |-> <<0, 0, 0, 0>>, vmm_neg_one |-> <<0, 0, 0, 0>>]
    /\ memC = <<>>
    /\ dup = FALSE
    /\ code = "vmm"
    /\ trace = <<>>

\* uni_vpbroadcastb(vmm_zero_point(0), zero point byte);
\* uni_vmovups(vmm_neg_one, negative_one); uni_vxorps(vmm_accm_tmp)
dq_prologue ==
    /\ pc = "zero_point"
    /\ acc' = [acc EXCEPT !.vmm_zero_point = [i \in 1..4 |-> rt.z],
                          !.vmm_neg_one = negative_one,
                          !.vmm_accm_tmp = 0]
    /\ pc' = "rd_loop"
    /\ UNCHANGED trace
    /\ DynQuantUnchanged

\* uni_vmovups(load(ld), B); broadcast(bcst(), A); vpdpbusd(vmm, load(ld), bcst())
dq_vpdpbusd_weights ==
    /\ pc = "rd_loop"
    /\ LET B == <<rt.w, 1, 0, 0>>
           A == <<int8_code(rt.a), int8_code(rt.a1), 0, 0>>
       IN  acc' = [acc EXCEPT !.load = B, !.bcst = A,
                              !.vmm_accm_tmp = vpdpbusd(@, B, A)]
    /\ trace' = Append(trace, "vpdpbusd")
    /\ pc' = "negate"
    /\ DynQuantUnchanged

\* uni_vpxor(bcst(), bcst(), vmm_neg_one); uni_vpsubb(bcst(), bcst(), vmm_neg_one)
dq_negate ==
    /\ pc = "negate"
    /\ brg.with_wei_decomp_zero_points
    /\ acc' = [acc EXCEPT !.bcst = uni_vpsubb(uni_vpxor(@, acc.vmm_neg_one),
                                              acc.vmm_neg_one)]
    /\ trace' = Append(trace, "negate")
    /\ pc' = "zero_point_term"
    /\ DynQuantUnchanged

\* vpdpbusd(vmm, vmm_zp, bcst())
dq_vpdpbusd_zero_point ==
    /\ pc = "zero_point_term"
    /\ acc' = [acc EXCEPT !.vmm_accm_tmp = vpdpbusd(@, acc.vmm_zero_point, acc.bcst)]
    /\ trace' = Append(trace, "vpdpbusd")
    /\ pc' = "src_scales"
    /\ DynQuantUnchanged

NextDynQuant ==
    \/ dq_prologue
    \/ dq_vpdpbusd_weights
    \/ dq_negate
    \/ dq_vpdpbusd_zero_point

SpecDynQuant == InitDynQuant /\ [][NextDynQuant]_vars

\* C27: with weight zero-points, for every signed 8-bit activation
\* a in -128..127, unsigned weight code w and unsigned zero-point z, the
\* temporary integer accumulator holds the sum of (w - z) * a over the
\* element pairs of the lane, and the byte-wise negation of the activation
\* (xor with all-ones, then subtract -1) equals -a.
C27_ZeroPointTermExact ==
    /\ pc = "zero_point_term" =>
          /\ as_int8(acc.bcst[1]) = 0 - rt.a
          /\ as_int8(acc.bcst[2]) = 0 - rt.a1
    /\ pc = "src_scales" =>
          acc.vmm_accm_tmp = ((rt.w - rt.z) * rt.a) + ((1 - rt.z) * rt.a1)

\* ======================================================================
\* apply_post_ops: stack-scratch accesses under the register-preserve
\* guard.  The frame is a function from byte offsets (relative to rsp at
\* kernel body level) to values; while the guard holds pushed registers
\* rsp is lower by the guard's stack space, so an access with displacement
\* disp reaches frame offset disp - guard space.
\* ======================================================================
abi_param1_offs_ == 96
reg_aux_C_bdb_loop_shift_offs_ == 216
reg_D_shift_bytes_offs_ == 224
reg_aux_D_backup_offs_ == 232

GuardFrame ==
    {0 - 8, abi_param1_offs_, reg_aux_C_bdb_loop_shift_offs_,
     reg_D_shift_bytes_offs_, reg_aux_D_backup_offs_}

GuardDescs ==
    [with_binary : BOOLEAN, is_runtime_ldd : BOOLEAN, bd_block : 1..MaxBdBlock]

\* conditional_register_preserve_guard_t(brg.with_binary, this, {param1}):
\* one 8-byte push when the condition holds
stack_space_occupied(d) == IF d.with_binary THEN 8 ELSE 0

\* rsp-relative read and write with the guard's pushes on the stack
guard_read(s, space, disp) == s[disp - space]
guard_write(s, space, disp, v) == [s EXCEPT ![disp - space] = v]
guard_access(op, space, name, disp) ==
    [op |-> op, name |-> name, addr |-> disp - space]

GuardUnchanged == UNCHANGED <<brg, rt, rg, acc, memC, dup>>

InitGuard ==
    /\ brg \in GuardDescs
    /\ rt \in [params : {4096}, aux_D : {1024, 2048}, D_shift : {16, 32},
               C_shift : {8, 64}, rdi : {0, 1}]
    /\ pc = "apply_post_ops"
    /\ ph = 0
    /\ rg = 0
    /\ gpr = [rdi |-> rt.rdi, rax |-> rt.aux_D]
    /\ stack = [o \in GuardFrame |->
                  IF o = abi_param1_offs_ THEN rt.params
                  ELSE IF o = reg_aux_C_bdb_loop_shift_offs_ THEN rt.C_shift
                  ELSE IF o = reg_D_shift_bytes_offs_ THEN rt.D_shift
                  ELSE 0]
    /\ acc = <<>>
    /\ memC = <<>>
    /\ dup = FALSE
    /\ code = 0
    /\ trace = <<>>

\* register_guard pushes param1; mov(param1, ptr[rsp + abi_param1_offs_ + guard_space])
apo_register_guard ==
    /\ pc = "apply_post_ops"
    /\ LET guard_space == stack_space_occupied(brg)
           s1 == IF brg.with_binary
                 THEN guard_write(stack, guard_space, 0, gpr.rdi) ELSE stack
       IN  /\ code' = guard_space
           /\ stack' = s1
           /\ gpr' = IF brg.with_binary
                     THEN [gpr EXCEPT !.rdi = guard_read(s1, guard_space,
                                                 abi_param1_offs_ + guard_space)]
                     ELSE gpr
           /\ trace' = IF brg.with_binary
                       THEN Append(trace, guard_access("read", guard_space,
                                abi_param1_offs_, abi_param1_offs_ + guard_space))
                       ELSE trace
    /\ pc' = "backup"
    /\ UNCHANGED ph
    /\ GuardUnchanged

\* if (brg.is_runtime_ldd && bd_block > 1)
\*     mov(ptr[rsp + reg_aux_D_backup_offs_], reg_aux_D)
apo_backup ==
    /\ pc = "backup"
    /\ IF brg.is_runtime_ldd /\ brg.bd_block > 1
       THEN /\ stack' = guard_write(stack, code, reg_aux_D_backup_offs_, gpr.rax)
            /\ trace' = Append(trace, guard_access("write", code,
                            reg_aux_D_backup_offs_, reg_aux_D_backup_offs_))
       ELSE UNCHANGED <<stack, trace>>
    /\ ph' = 0
    /\ pc' = "bd_loop"
    /\ UNCHANGED <<gpr, code>>
    /\ GuardUnchanged

\* one pass of the bd_block_idx loop: the injector over the rows, then
\* add(reg_aux_D, ptr[rsp + reg_D_shift_bytes_offs_]) with runtime LDD
apo_bd_loop ==
    /\ pc = "bd_loop"
    /\ LET bd_block_shift == IF brg.is_runtime_ldd THEN 1 ELSE brg.bd_block
       IN  /\ ph' = ph + bd_block_shift
           /\ pc' = IF ph + bd_block_shift < brg.bd_block THEN "bd_loop" ELSE "restore"
    /\ IF brg.is_runtime_ldd /\ brg.bd_block > 1
       THEN /\ gpr' = [gpr EXCEPT !.rax = @ + guard_read(stack, code,
                                                 reg_D_shift_bytes_offs_)]
            /\ trace' = Append(trace, guard_access("read", code,
                            reg_D_shift_bytes_offs_, reg_D_shift_bytes_offs_))
       ELSE UNCHANGED <<gpr, trace>>
    /\ UNCHANGED <<stack, code>>
    /\ GuardUnchanged

\* mov(reg_aux_D, ptr[rsp + reg_aux_D_backup_offs_]); the guard pops param1
apo_restore ==
    /\ pc = "restore"
    /\ LET g1 == IF brg.is_runtime_ldd /\ brg.bd_block > 1
                 THEN [gpr EXCEPT !.rax = guard_read(stack, code,
                                              reg_aux_D_backup_offs_)]
                 ELSE gpr
       IN  gpr' = IF brg.with_binary
                  THEN [g1 EXCEPT !.rdi = guard_read(stack, code, 0)] ELSE g1
    /\ trace' = IF brg.is_runtime_ldd /\ brg.bd_block > 1
                THEN Append(trace, guard_access("read", code,
                         reg_aux_D_backup_offs_, reg_aux_D_backup_offs_))
                ELSE trace
    /\ code' = 0
    /\ pc' = "store"
    /\ UNCHANGED <<ph, stack>>
    /\ GuardUnchanged

NextGuard ==
    \/ apo_register_guard
    \/ apo_backup
    \/ apo_bd_loop
    \/ apo_restore

SpecGuard == InitGuard /\ [][NextGuard]_vars

\* C28: with binary post-ops configured, every stack-scratch access made
\* while the guard of apply_post_ops holds its pushed registers addresses
\* the slot it addresses outside the guard (the reg_aux_D backup, the D
\* shift-bytes slot, the saved parameter pointer), and no other slot of
\* the frame is read or overwritten.
C28_GuardedAccessesHitTheirSlots ==
    brg.with_binary =>
        /\ \A i \in DOMAIN trace : trace[i].addr = trace[i].name
        /\ stack[abi_param1_offs_] = rt.params
        /\ stack[reg_D_shift_bytes_offs_] = rt.D_shift
        /\ stack[reg_aux_C_bdb_loop_shift_offs_] = rt.C_shift

\* ======================================================================
\* store_accumulators in tile mode: reg_aux_C, reg_aux_D and the aux stack
\* pointers of the post-ops across store_accumulators_amx, on every
\* run-time path (do_post_ops, do_comp).
\* ======================================================================
reg_do_comp == reg_rdb_loop

zp_comp_b_offset(d, bd) == 4 * bd

bdb_zp_comp_b_offset(d, bd_block2) == zp_comp_b_offset(d, bd_block2 * d.bd_block)

bdb_compensation_offset(d, bd_block2) == 4 * bd_block2 * d.bd_block * d.LDB

advance_bdb_post_op_regs(d) ==
    If(d.zp_type_b # "none",
       shift_slot(reg_aux_zp_comp_b, "reg_aux_zp_comp_b_offs_",
                  bdb_zp_comp_b_offset(d, 1)))
    \o If(d.req_comp_pads_with_bcast /\ d.zp_type_a # "none",
          shift_slot(reg_aux_zp_comp_a, "reg_aux_zp_comp_a_offs_",
                     bdb_compensation_offset(d, 1)))

\* restore_bdb_post_op_regs that moves nothing back.
restore_bdb_post_op_regs_none(d, bd_block2) == <<>>

restore_bdb_post_op_regs(d, bd_block2) ==
    If(bd_block2 > 1,
       If(d.zp_type_b # "none",
          shift_slot(reg_aux_zp_comp_b, "reg_aux_zp_comp_b_offs_",
                     0 - bdb_zp_comp_b_offset(d, bd_block2 - 1))
          \o <<MPop(reg_buf, "reg_buf_offs_")>>)
       \o If(d.req_comp_pads_with_bcast /\ d.zp_type_a # "none",
             shift_slot(reg_aux_zp_comp_a, "reg_aux_zp_comp_a_offs_",
                        0 - bdb_compensation_offset(d, bd_block2 - 1))))

AuxSlots ==
    {"reg_aux_bias_offs_", "reg_aux_scales_offs_", "reg_aux_zp_comp_a_offs_",
     "reg_aux_zp_comp_b_offs_", "reg_aux_zp_c_values_offs_"}

AmxStoreDescs ==
    {Merge(po, [is_tmm |-> TRUE, is_int8 |-> TRUE, zp_type_b |-> zb,
                req_comp_pads_with_bcast |-> pads,
                with_eltwise |-> FALSE, with_binary |-> bin,
                with_sum |-> FALSE, with_dst_scales |-> FALSE,
                dt_c |-> "s32", dt_d |-> "s32", alpha |-> 1, beta |-> beta,
                is_runtime_ldc |-> rld, is_runtime_ldd |-> rld,
                bd_block2 |-> b2, ld_block2 |-> l2,
                bd_block |-> 2, ld_block |-> 2, ldb_tail |-> 0,
                LDB |-> 4, LDC |-> 4, LDD |-> 4,
                typesize_C |-> 4, typesize_D |-> 1, typesize_bias |-> 4]) :
        po \in PostOpConfigs, zb \in {"none", "per_tensor"}, pads \in BOOLEAN,
        beta \in {0, 1}, rld \in BOOLEAN, bin \in BOOLEAN,
        b2 \in BlockSizes, l2 \in BlockSizes}

AmxStoreParams ==
    [ptr_C |-> Ptr("C", 0), ptr_D |-> Ptr("D", 0), ptr_buf |-> Ptr("buf", 0),
     ptr_bias |-> Ptr("bias", 0), ptr_scales |-> Ptr("scales", 0),
     a_zp_compensations |-> Ptr("zp_comp_a", 0),
     b_zp_compensations |-> Ptr("zp_comp_b", 0),
     c_zp_values |-> Ptr("zp_c", 0),
     do_post_ops |-> Imm(IF rt.do_post_ops THEN 1 ELSE 0),
     do_apply_comp |-> Imm(IF rt.do_comp THEN 1 ELSE 0)]

\* read_params and copy_post_ops_stack_values_to_aux, as far as the store
\* uses what they leave
amx_store_setup(d) ==
    <<MParam(reg_C, "ptr_C"), MParam(reg_D, "ptr_D"),
      MParam(reg_buf, "ptr_buf"), MPush("reg_buf_offs_", reg_buf)>>
    \o If(d.with_bias,
          <<MParam(reg_bias, "ptr_bias"), MPush("reg_aux_bias_offs_", reg_bias)>>)
    \o If(d.with_scales,
          <<MParam(reg_scales, "ptr_scales"),
            MPush("reg_aux_scales_offs_", reg_scales)>>)
    \o If(d.zp_type_a # "none",
          <<MParam(reg_zp_comp_a, "a_zp_compensations"),
            MPush("reg_aux_zp_comp_a_offs_", reg_zp_comp_a)>>)
    \o If(d.zp_type_b # "none",
          <<MParam(reg_aux_zp_comp_b, "b_zp_compensations"),
            MPush("reg_aux_zp_comp_b_offs_", reg_aux_zp_comp_b)>>)
    \o If(d.zp_type_c # "none",
          <<MParam(reg_zp_c_values, "c_zp_values"),
            MPush("reg_aux_zp_c_values_offs_", reg_zp_c_values)>>)
    \o <<MParam(reg_do_post_ops, "do_post_ops"),
         MPush("reg_do_post_ops_offs_", reg_do_post_ops),
         MParam(reg_do_comp, "do_apply_comp"),
         MPush("reg_do_comp_offs_", reg_do_comp),
         MMov(reg_aux_C, reg_C), MMov(reg_aux_D, reg_D)>>

\* the run-time dispatch of store_accumulators in tile mode:
\* <<apply_post_ops, apply_zp_a_compensation>> of the variant that runs
store_accumulators_dispatch(d, do_post_ops, do_comp) ==
    IF are_post_ops_applicable(d) /\ do_post_ops
    THEN <<TRUE, need_generate_zp_a_compensation(d) /\ do_comp>>
    ELSE <<FALSE, need_generate_zp_a_compensation(d) /\ do_comp>>

\* the moves of reg_aux_D inside store_accumulators_apply_post_ops with a
\* runtime LDD and more than one row: apply_post_ops saves it, advances it
\* row by row and reloads it while its register guard is alive (with binary
\* post-ops the guard's 8 bytes shift both displacements one slot down),
\* then the store loop does the same at frame level
apply_post_ops_aux_D(d, bd_block, C_shift, D_shift) ==
    If(d.is_runtime_ldd /\ bd_block > 1,
       <<MPush(IF d.with_binary THEN "reg_D_shift_bytes_offs_"
               ELSE "reg_aux_D_backup_offs_", reg_aux_D)>>
       \o For(bd_block, LAMBDA bd :
              <<MAdd(reg_aux_D, IF d.with_binary
                                THEN C_shift * bdb_C_offset(d, 1) ELSE D_shift)>>)
       \o <<MPop(reg_aux_D, IF d.with_binary THEN "reg_D_shift_bytes_offs_"
                            ELSE "reg_aux_D_backup_offs_")>>
       \o <<MPush("reg_aux_D_backup_offs_", reg_aux_D)>>
       \o For(bd_block, LAMBDA bd : <<MAdd(reg_aux_D, D_shift)>>)
       \o <<MPop(reg_aux_D, "reg_aux_D_backup_offs_")>>)

\* store_accumulators_amx up to the bdb loop
store_accumulators_amx_enter(d, apply_post_ops) ==
    <<MPush("reg_aux_C_bdb_loop_backup_offs_", reg_aux_C)>>
    \o If(apply_post_ops,
          <<MPush("reg_aux_D_bdb_loop_backup_offs_", reg_aux_D)>>)
    \o <<MPop(reg_buf, "reg_buf_offs_")>>

\* one pass of the bdb loop of store_accumulators_amx; with a runtime
\* leading dimension the row-block advance is the product kept in the
\* shift slot, C_shift and D_shift bytes per row
store_accumulators_amx_row(d, bdb, apply_post_ops, apply_zp_a_compensation, C_shift, D_shift) ==
    LET through_buf == need_to_apply_alpha_beta(d) \/ are_post_ops_applicable(d)
                       \/ apply_zp_a_compensation
        cell(ldb) ==
            If(through_buf,
               If(apply_zp_a_compensation, apply_compensation_po(d))
               \o If(apply_post_ops,
                     apply_post_ops_po(d)
                     \o apply_post_ops_aux_D(d, d.bd_block, C_shift, D_shift)
                     \o If(ldb < d.ld_block2 - 1,
                           advance_ldb_post_op_regs(d)
                           \o <<MAdd(reg_aux_D, ldb_D_offset(d, 1, FALSE))>>))
               \o <<MPop(reg_buf, "reg_buf_offs_")>>)
            \o If(ldb < d.ld_block2 - 1,
                  <<MAdd(reg_aux_C, ldb_C_offset(d, 1, FALSE))>>)
    IN  For(d.ld_block2, cell)
        \o If(d.ld_block2 > 1,
              <<MAdd(reg_aux_C, 0 - ldb_C_offset(d, d.ld_block2 - 1, FALSE))>>)
        \o If(bdb < d.bd_block2 - 1,
              <<MAdd(reg_aux_C, IF d.is_runtime_ldc
                                THEN C_shift * bdb_C_offset(d, 1)
                                ELSE bdb_C_offset(d, 1))>>)
        \o If(apply_post_ops,
              If(d.ld_block2 > 1,
                 <<MAdd(reg_aux_D, 0 - ldb_D_offset(d, d.ld_block2 - 1, FALSE))>>
                 \o restore_ldb_post_op_regs(d, d.ld_block2))
              \o If(bdb < d.bd_block2 - 1,
                    <<MAdd(reg_aux_D, IF d.is_runtime_ldd
                                      THEN D_shift * bdb_D_offset(d, 1)
                                      ELSE bdb_D_offset(d, 1))>>
                    \o advance_bdb_post_op_regs(d)))

\* store_accumulators_amx after the bdb loop
store_accumulators_amx_exit(d, apply_post_ops) ==
    <<MPop(reg_aux_C, "reg_aux_C_bdb_loop_backup_offs_")>>
    \o If(apply_post_ops,
          <<MPop(reg_aux_D, "reg_aux_D_bdb_loop_backup_offs_")>>
          \o restore_bdb_post_op_regs(d, d.bd_block2))

InitAmxStore ==
    /\ brg \in AmxStoreDescs
    /\ rt \in [do_post_ops : BOOLEAN, do_comp : BOOLEAN,
               C_shift : {8}, D_shift : {2}]
    /\ pc = "read_params"
    /\ ph = 0
    /\ rg = 0
    /\ gpr = [r \in Regs |-> Undef]
    /\ stack = <<>>
    /\ acc = <<>>
    /\ memC = <<>>
    /\ dup = FALSE
    /\ code = <<FALSE, FALSE>>
    /\ trace = <<>>

amx_store_run(prog, next) ==
    /\ \E m \in {MExec(1, [g |-> gpr, s |-> stack, log |-> {}], prog, 1,
                       Len(prog), AmxStoreParams)} :
          /\ gpr' = m.g
          /\ stack' = m.s
    /\ pc' = next
    /\ UNCHANGED <<brg, rt, rg, memC, dup>>

\* the kernel up to store_accumulators; acc keeps the values on entry
amx_store_read_params ==
    /\ pc = "read_params"
    /\ amx_store_run(amx_store_setup(brg), "store_accumulators")
    /\ acc' = [C |-> gpr'[reg_aux_C], D |-> gpr'[reg_aux_D],
               s |-> [o \in AuxSlots \cap DOMAIN stack' |-> stack'[o]]]
    /\ UNCHANGED <<ph, code, trace>>

\* mov(reg_do_post_ops, ...); cmp; jz; mov(reg_do_comp, ...); cmp; jz; the
\* chosen store_accumulators_amx up to its loop
amx_store_dispatch ==
    /\ pc = "store_accumulators"
    /\ LET v == store_accumulators_dispatch(brg, rt.do_post_ops, rt.do_comp)
       IN  /\ code' = v
           /\ amx_store_run(
                  If(are_post_ops_applicable(brg),
                     <<MPop(reg_do_post_ops, "reg_do_post_ops_offs_")>>)
                  \o If(need_generate_zp_a_compensation(brg),
                        <<MPop(reg_do_comp, "reg_do_comp_offs_")>>)
                  \o store_accumulators_amx_enter(brg, v[1]), "bdb")
    /\ ph' = 0
    /\ trace' = <<>>
    /\ UNCHANGED acc

amx_store_row ==
    /\ pc = "bdb"
    /\ amx_store_run(
           store_accumulators_amx_row(brg, ph, code[1], code[2],
                                      rt.C_shift, rt.D_shift),
           IF ph + 1 < brg.bd_block2 THEN "bdb" ELSE "bdb_done")
    /\ ph' = ph + 1
    /\ trace' = Append(trace, [C |-> gpr[reg_aux_C], D |-> gpr[reg_aux_D]])
    /\ UNCHANGED <<acc, code>>

amx_store_exit ==
    /\ pc = "bdb_done"
    /\ amx_store_run(store_accumulators_amx_exit(brg, code[1]), "label_done")
    /\ UNCHANGED <<ph, acc, code, trace>>

NextAmxStore ==
    \/ amx_store_read_params
    \/ amx_store_dispatch
    \/ amx_store_row
    \/ amx_store_exit

SpecAmxStore == InitAmxStore /\ [][NextAmxStore]_vars

\* C29: in tile mode, for every bd_block2 and ld_block2 and on every
\* run-time path of store_accumulators (post-ops applied or not,
\* compensation applied or not), reg_aux_C, reg_aux_D and the aux stack
\* pointers of bias, scales, zero-point-A compensation, zero-point-B
\* compensation and per-channel zero-point C have on exit the values they
\* had on entry.
C29_StoreRestoresPointers ==
    pc = "label_done" =>
        /\ gpr[reg_aux_C] = acc.C
        /\ gpr[reg_aux_D] = acc.D
        /\ \A o \in DOMAIN acc.s : stack[o] = acc.s[o]

\* a store with post-ops over two row blocks of two column blocks has moved
\* bias and zero-point-B compensation pointers and C, D between its rows
C29_Witness ==
    /\ pc = "label_done"
    /\ code[1] /\ code[2]
    /\ brg.bd_block2 = 2 /\ brg.ld_block2 = 2
    /\ brg.with_bias /\ brg.zp_type_b # "none" /\ brg.zp_type_a # "none"
    /\ brg.req_comp_pads_with_bcast /\ brg.zp_type_c = "per_n"
    /\ Len(trace) = 2 /\ trace[2].C # trace[1].C /\ trace[2].D # trace[1].D

\* ======================================================================
\* generate_skip_accumulation: which kinds of instructions a call executes
\* and what its stores write, for the three addressing modes, vector and
\* tile mode.  trace is the set of instruction kinds executed so far, acc
\* the content of the accumulators of the current block, memC the
\* accumulator contents handed to the store pipeline, in order.
\* ======================================================================
SkipDescs ==
    {d \in [type : Types, is_tmm : BOOLEAN, max_bs : 1..MaxBS,
            max_top_vpad : 0..MaxVpad, max_bottom_vpad : {0},
            alpha : 0..1, generate_skip_accumulation : BOOLEAN,
            bdb : 1..2, ldb2 : 1..MaxLdb2, rdb : 0..MaxRdb, rdb_tail : 0..1,
            through_buf : BOOLEAN] :
        /\ d.is_tmm => ~vpad_exist(d)
        /\ d.rdb + d.rdb_tail >= 1}

\* bdb_loop_general that loads the A and B pointers whatever the variant.
bdb_loop_general_loads_always(d, skip_accumulation) ==
    IF d.type = "addr" /\ d.max_bs = 1 /\ ~vpad_exist(d)
    THEN {"load_batch"} ELSE {}

\* bdb_loop_general: mov(reg_aux1_A / reg_aux1_B, ptr[reg_addr_batch + ...])
bdb_loop_general_loads(d, skip_accumulation) ==
    IF d.type = "addr" /\ d.max_bs = 1 /\ ~vpad_exist(d) /\ ~skip_accumulation
    THEN {"load_batch"} ELSE {}

\* zero_accumulators: tile mode leaves the tiles alone without accumulation
zero_accumulators_content(d, skip_accumulation, a) ==
    IF d.is_tmm /\ skip_accumulation THEN a ELSE "zero"

\* set_A_B_matrices: the batch-array reads of an addressing mode
set_A_B_matrices_loads(d) ==
    IF d.type = "addr" THEN (IF d.max_bs > 1 THEN {"load_batch"} ELSE {})
    ELSE IF d.type = "offs" THEN {"load_batch"}
    ELSE {}

\* the batch loop's read of vvpad.top and vvpad.bottom
vpad_loads(d, path) ==
    IF vpad_exist(d) /\ path = "vpad" THEN {"load_batch"} ELSE {}

\* gemm_microkernel / gemm_microkernel_amx over the rdb loop and the tail
microkernel_loads == {"load_A", "load_B", "mac"}

\* what store_accumulators hands to the store pipeline for one block
store_accumulators_content(d, skip_accumulation, a) ==
    IF d.is_tmm /\ skip_accumulation THEN "zero" ELSE a

SkipUnchanged == UNCHANGED <<brg, rt, stack, dup>>

InitSkip ==
    /\ brg \in SkipDescs
    /\ rt \in [skip_accm : {0, 1, 7}, BS : 1..brg.max_bs, batch_null : BOOLEAN]
    /\ rt.batch_null => (brg.type = "strd" /\ vpad_exist(brg))
    /\ pc = "bdb_loop"
    /\ ph = 1
    /\ rg = 1
    /\ gpr = [rax |-> 0]
    /\ stack = <<>>
    /\ acc = "garbage"
    /\ memC = <<>>
    /\ dup = FALSE
    /\ code = [skip_accumulation |-> FALSE, path |-> "none"]
    /\ trace = {}

\* mov(reg_skip_accm, ...); cmp(reg_skip_accm, 0); jnz; bdb_loop_general;
\* the entry of bdb_loop_avx512 / bdb_loop_amx
skip_bdb_loop ==
    /\ pc = "bdb_loop"
    /\ LET skip == brg.generate_skip_accumulation /\ rt.skip_accm # 0
       IN  /\ code' = [skip_accumulation |-> skip,
                       path |-> IF vpad_exist(brg)
                                   /\ (brg.type = "strd" => ~rt.batch_null)
                                THEN "vpad" ELSE "novpad"]
           /\ trace' = trace \cup bdb_loop_general_loads(brg, skip)
    /\ pc' = "ldb_loop_label"
    /\ UNCHANGED <<ph, rg, gpr, acc, memC>>
    /\ SkipUnchanged

\* ldb_loop_label: zero_accumulators; the batch loop is emitted only under
\* brg.alpha != 0 && !skip_accumulation
skip_ldb_loop_label ==
    /\ pc = "ldb_loop_label"
    /\ acc' = zero_accumulators_content(brg, code.skip_accumulation, acc)
    /\ trace' = trace \cup (IF brg.is_tmm /\ code.skip_accumulation THEN {}
                            ELSE IF brg.is_tmm THEN {"tilezero"} ELSE {"vpxor"})
    /\ IF brg.alpha # 0 /\ ~code.skip_accumulation
       THEN /\ gpr' = [gpr EXCEPT !.rax = rt.BS]
            /\ pc' = "BS_loop_label"
       ELSE /\ pc' = "store_accumulators"
            /\ UNCHANGED gpr
    /\ UNCHANGED <<ph, rg, memC, code>>
    /\ SkipUnchanged

\* one batch step: the vpad dispatch, set_A_B_matrices, the microkernels,
\* dec(reg_BS_loop); cmp; jg
skip_BS_loop ==
    /\ pc = "BS_loop_label"
    /\ trace' = trace \cup vpad_loads(brg, code.path)
                      \cup set_A_B_matrices_loads(brg) \cup microkernel_loads
    /\ acc' = "products"
    /\ gpr' = [gpr EXCEPT !.rax = @ - 1]
    /\ pc' = IF brg.max_bs > 1 /\ gpr.rax - 1 > 0
             THEN "BS_loop_label" ELSE "store_accumulators"
    /\ UNCHANGED <<ph, rg, memC, code>>
    /\ SkipUnchanged

\* store_accumulators (in tile mode through the buffer with zeroed vector
\* registers, or tilezero and tilestored), ldb_regs_shift and the loop
\* tests of the column and row blocks
skip_store_accumulators ==
    /\ pc = "store_accumulators"
    /\ LET v == store_accumulators_content(brg, code.skip_accumulation, acc)
       IN  /\ memC' = Append(memC, v)
           /\ acc' = IF brg.is_tmm /\ code.skip_accumulation /\ ~brg.through_buf
                     THEN "zero" ELSE acc
           /\ trace' = trace \cup
                 (IF brg.is_tmm /\ code.skip_accumulation
                  THEN (IF brg.through_buf THEN {"vpxor"} ELSE {"tilezero"})
                  ELSE {})
    /\ IF rg < brg.ldb2
       THEN /\ rg' = rg + 1 /\ ph' = ph /\ pc' = "ldb_loop_label"
       ELSE /\ rg' = 1
            /\ ph' = ph + 1
            /\ pc' = IF ph < brg.bdb THEN "ldb_loop_label" ELSE "bdb_loop_done_label"
    /\ UNCHANGED <<gpr, code>>
    /\ SkipUnchanged

NextSkip ==
    \/ skip_bdb_loop
    \/ skip_ldb_loop_label
    \/ skip_BS_loop
    \/ skip_store_accumulators

SpecSkip == InitSkip /\ [][NextSkip]_vars

\* C30: a kernel built with generate_skip_accumulation, called with
\* skip_accm != 0, executes no load from A, B or the batch array and no
\* multiply-accumulate, in every addressing mode and in vector and tile
\* mode, and every cell it stores comes from a zero accumulator.
C30_SkipAccumulationTouchesNoOperand ==
    (brg.generate_skip_accumulation /\ rt.skip_accm # 0) =>
        /\ trace \cap {"load_batch", "load_A", "load_B", "mac"} = {}
        /\ pc # "BS_loop_label"
        /\ \A i \in DOMAIN memC : memC[i] = "zero"

\* a finished skip call in tile mode that stored every block
C30_Witness ==
    /\ brg.generate_skip_accumulation /\ rt.skip_accm # 0
    /\ brg.is_tmm /\ brg.alpha # 0 /\ brg.type = "addr" /\ brg.max_bs = 1
    /\ pc = "bdb_loop_done_label"
    /\ Len(memC) = brg.bdb * brg.ldb2 /\ Len(memC) >= 2

\* a finished skip call in vector mode with virtual padding
C30_WitnessVector ==
    /\ brg.generate_skip_accumulation /\ rt.skip_accm # 0
    /\ ~brg.is_tmm /\ vpad_exist(brg) /\ brg.type = "offs"
    /\ pc = "bdb_loop_done_label" /\ Len(memC) >= 2

====
